---- MODULE Spec2Model ----
(***************************************************************************)
(* Relevance filtering of job postings: AIRelevanceFilteringService of     *)
(* app/services/ai_relevance_filtering.py.                                 *)
(*                                                                         *)
(* Representation.                                                         *)
(*  - A Python str is a tuple of one-character strings; None is the        *)
(*    distinguished value None.  lower(), split(), strip(), "in" and the   *)
(*    regular expressions of the source are computed on the characters.    *)
(*  - A Python float is an IEEE 754 binary64 number: sign, 53-bit          *)
(*    significand and exponent, every operation rounded to nearest, ties   *)
(*    to even.  NaN, negative zero and subnormal numbers do not arise.     *)
(*  - The explanation text carried next to a score is only logged by the   *)
(*    source and is left out.                                              *)
(***************************************************************************)
EXTENDS Integers, Sequences, FiniteSets, TLC

\* the sequence f itself, with its elements computed once
Once(f) == <<>> \o f

Min(a, b) == IF a <= b THEN a ELSE b

Max(a, b) == IF a >= b THEN a ELSE b

(***************************************************************************)
(* Python strings                                                          *)
(***************************************************************************)
None == <<"None">>

Truthy(s) == s # None /\ s # <<>>

UpperChars == <<"A","B","C","D","E","F","G","H","I","J","K","L","M",
                "N","O","P","Q","R","S","T","U","V","W","X","Y","Z">>

LowerChars == <<"a","b","c","d","e","f","g","h","i","j","k","l","m",
                "n","o","p","q","r","s","t","u","v","w","x","y","z">>

DigitChars == <<"0","1","2","3","4","5","6","7","8","9">>

LowerCh(c) ==
    IF \E i \in 1..Len(UpperChars) : UpperChars[i] = c
    THEN LowerChars[CHOOSE i \in 1..Len(UpperChars) : UpperChars[i] = c]
    ELSE c

Lower(s) == [i \in 1..Len(s) |-> LowerCh(s[i])]

IsDigit(c) == \E i \in 1..Len(DigitChars) : DigitChars[i] = c

DigitVal(c) == (CHOOSE i \in 1..Len(DigitChars) : DigitChars[i] = c) - 1

IsSpace(c) == c \in {" ", "\n", "\t"}

\* \w of the re module, on the characters the model uses
IsWordCh(c) ==
    \/ IsDigit(c)
    \/ c = "_"
    \/ \E i \in 1..Len(LowerChars) : LowerChars[i] = c \/ UpperChars[i] = c

\* needle in hay
Contains(hay, needle) ==
    \E i \in 0..(Len(hay) - Len(needle)) :
        SubSeq(hay, i + 1, i + Len(needle)) = needle

\* s[p:p+len(t)] == t, p counted from 1
StartsAt(s, p, t) ==
    /\ p + Len(t) - 1 <= Len(s)
    /\ SubSeq(s, p, p + Len(t) - 1) = t

\* s.split(sep) for a one-character sep: empty parts are kept
SplitOn(s, sep) ==
    LET seps   == {i \in 1..Len(s) : s[i] = sep}
        \* where the k-th separator is; 0 and Len(s) + 1 bound the string
        At(k)  == IF k = 0 THEN 0
                  ELSE IF k > Cardinality(seps) THEN Len(s) + 1
                  ELSE CHOOSE p \in seps : Cardinality({q \in seps : q < p}) = k - 1
    IN  [k \in 1..(Cardinality(seps) + 1) |-> SubSeq(s, At(k - 1) + 1, At(k) - 1)]

\* length of the run of digits that starts at p (0 when s[p] is no digit)
DigitRun(s, p) ==
    IF \A m \in p..Len(s) : IsDigit(s[m])
    THEN Max(0, Len(s) + 1 - p)
    ELSE (CHOOSE q \in p..Len(s) :
              ~IsDigit(s[q]) /\ \A m \in p..(q - 1) : IsDigit(s[m])) - p

\* length of the run of whitespace that starts at p
SpaceRun(s, p) ==
    IF \A m \in p..Len(s) : IsSpace(s[m])
    THEN Max(0, Len(s) + 1 - p)
    ELSE (CHOOSE q \in p..Len(s) :
              ~IsSpace(s[q]) /\ \A m \in p..(q - 1) : IsSpace(s[m])) - p

\* length of the run of whitespace that ends at p
SpaceRunBack(s, p) ==
    IF \A m \in 1..p : IsSpace(s[m])
    THEN Max(0, p)
    ELSE p - (CHOOSE q \in 1..p :
                  ~IsSpace(s[q]) /\ \A m \in (q + 1)..p : IsSpace(s[m]))

\* length of the run of non-whitespace that starts at p
WordRun(s, p) ==
    IF \A m \in p..Len(s) : ~IsSpace(s[m])
    THEN Max(0, Len(s) + 1 - p)
    ELSE (CHOOSE q \in p..Len(s) :
              IsSpace(s[q]) /\ \A m \in p..(q - 1) : ~IsSpace(s[m])) - p

LStrip(s) == SubSeq(s, 1 + SpaceRun(s, 1), Len(s))

RStrip(s) == SubSeq(s, 1, Len(s) - SpaceRunBack(s, Len(s)))

Strip(s) == RStrip(LStrip(s))

\* s.split(): the runs of non-whitespace characters
SplitWs(s) ==
    LET starts == {i \in 1..Len(s) : ~IsSpace(s[i]) /\ (i = 1 \/ IsSpace(s[i - 1]))}
        At(k)  == CHOOSE p \in starts : Cardinality({q \in starts : q < p}) = k - 1
    IN  [k \in 1..Cardinality(starts) |-> SubSeq(s, At(k), At(k) + WordRun(s, At(k)) - 1)]

\* int() / float() of a string of digits
ParseInt(ds) ==
    LET value[k \in 0..Len(ds)] ==
            IF k = 0 THEN 0 ELSE 10 * value[k - 1] + DigitVal(ds[k])
    IN  value[Len(ds)]

\* \b at the boundary in front of position p
WordBoundary(s, p) ==
    LET before == p > 1 /\ p - 1 <= Len(s) /\ IsWordCh(s[p - 1])
        after  == p >= 1 /\ p <= Len(s) /\ IsWordCh(s[p])
    IN  before # after

(***************************************************************************)
(* Natural numbers of any size: a tuple of limbs, least significant        *)
(* first, each in 0..Limb-1, the top limb not 0 (so 0 is <<>>).            *)
(***************************************************************************)
Limb == 2 ^ 14

LimbBits == CHOOSE k \in 1..30 : 2 ^ k = Limb

LimbAt(a, k) == IF k >= 1 /\ k <= Len(a) THEN a[k] ELSE 0

\* a without the zero limbs at its top
Normal(a) ==
    SubSeq(a, 1, IF \A k \in 1..Len(a) : a[k] = 0 THEN 0
                 ELSE CHOOSE k \in 1..Len(a) : a[k] # 0 /\ \A m \in (k + 1)..Len(a) : a[m] = 0)

\* n as limbs, 0 <= n < 2^31
FromInt(n) == Normal(<<n % Limb, (n \div Limb) % Limb, n \div (Limb * Limb)>>)

\* the integer of the limbs a, below 2^31
ToInt(a) == LimbAt(a, 1) + Limb * LimbAt(a, 2) + Limb * Limb * LimbAt(a, 3)

BigAdd(a, b) ==
    LET Sum(k)   == LimbAt(a, k) + LimbAt(b, k)
        \* the carry into limb k: a limb below overflows and those between pass it on
        Carry(k) == \E j \in 1..(k - 1) :
                        Sum(j) >= Limb /\ \A m \in (j + 1)..(k - 1) : Sum(m) = Limb - 1
    IN  Normal([k \in 1..(Max(Len(a), Len(b)) + 1) |->
                   (Sum(k) + IF Carry(k) THEN 1 ELSE 0) % Limb])

\* a - b for a >= b
BigSub(a, b) ==
    LET \* the borrow from limb k
        Borrow(k) == \E j \in 1..(k - 1) :
                         /\ LimbAt(a, j) < LimbAt(b, j)
                         /\ \A m \in (j + 1)..(k - 1) : LimbAt(a, m) = LimbAt(b, m)
    IN  Normal([k \in 1..Len(a) |->
                   (LimbAt(a, k) - LimbAt(b, k) - (IF Borrow(k) THEN 1 ELSE 0) + Limb) % Limb])

\* a * d for 0 <= d <= Limb: the low halves of the limb products plus the high ones
BigTimes(a, d) ==
    BigAdd([k \in 1..Len(a) |-> (a[k] * d) % Limb],
           <<0>> \o [k \in 1..Len(a) |-> (a[k] * d) \div Limb])

\* a * b, for b of a few limbs: the multiples of a by the limbs of b, added up
BigMul(a, b) ==
    LET partial[i \in 0..Len(b)] ==
            IF i = 0 THEN <<>>
            ELSE BigAdd(partial[i - 1],
                        Normal([k \in 1..(i - 1) |-> 0] \o BigTimes(a, b[i])))
    IN  partial[Len(b)]

\* quotient and remainder of a by d, 0 < d < Limb
BigDivMod(a, d) ==
    LET \* what is left of the limbs above limb k
        left[k \in 1..(Len(a) + 1)] ==
            IF k = Len(a) + 1 THEN 0 ELSE (left[k + 1] * Limb + a[k]) % d
    IN  [quot |-> Normal([k \in 1..Len(a) |-> (left[k + 1] * Limb + a[k]) \div d]),
         rem  |-> left[1]]

\* a * 2^k
ShiftLeft(a, k) == Normal([i \in 1..(k \div LimbBits) |-> 0] \o BigTimes(a, 2 ^ (k % LimbBits)))

\* a \div 2^k
ShiftRight(a, k) ==
    LET Bits(s, limbs) ==
            [i \in 1..(Len(a) - limbs) |->
                (a[i + limbs] \div 2 ^ s)
                    + (LimbAt(a, i + limbs + 1) % 2 ^ s) * 2 ^ (LimbBits - s)]
    IN  Normal(Bits(k % LimbBits, k \div LimbBits))

\* a < b
BigLess(a, b) ==
    \/ Len(a) < Len(b)
    \/ /\ Len(a) = Len(b)
       /\ \E k \in 1..Len(a) : a[k] < b[k] /\ \A m \in (k + 1)..Len(a) : a[m] = b[m]

\* the number of bits of a
BitLength(a) ==
    IF a = <<>> THEN 0
    ELSE (Len(a) - 1) * LimbBits
             + (CHOOSE k \in 1..LimbBits : 2 ^ (k - 1) <= a[Len(a)] /\ a[Len(a)] < 2 ^ k)

(***************************************************************************)
(* Python floats.  A float is [neg, inf, m, e]: plus or minus infinity if  *)
(* inf, else the number m * 2^e with m of exactly Precision bits, or 0.    *)
(***************************************************************************)
\* bits of the significand of a binary64
Precision == 53

\* binary64 numbers are below 2^MaxExponent
MaxExponent == 2 ^ 10

Zero == [neg |-> FALSE, inf |-> FALSE, m |-> <<>>, e |-> 0]

Infinity == [neg |-> FALSE, inf |-> TRUE, m |-> <<>>, e |-> 0]

Negate(x) == IF x = Zero THEN x ELSE [x EXCEPT !.neg = ~x.neg]

\* the float nearest to (n + f) * 2^e for a fraction 0 <= f < 1, ties to even;
\* sticky says that f > 0, and then n has more than Precision + 1 bits
Nearest(neg, n, e, sticky) ==
    LET Finite(m, x) ==
            IF x + Precision > MaxExponent THEN [Infinity EXCEPT !.neg = neg]
            ELSE [neg |-> neg, inf |-> FALSE, m |-> m, e |-> x]
        \* rounding up may have carried into one more bit
        Carried(q, x) ==
            IF BitLength(q) > Precision THEN Finite(ShiftRight(q, 1), x + 1)
            ELSE Finite(q, x)
        \* q: the kept bits, r: the dropped bits, half: half a unit of q
        Up(q, r, half) ==
            \/ BigLess(half, r)
            \/ r = half /\ (sticky \/ q[1] % 2 = 1)
        Rounded(q, r, half, x) ==
            Carried(IF Up(q, r, half) THEN BigAdd(q, <<1>>) ELSE q, x)
        Kept(q, s) ==
            Rounded(q, BigSub(n, ShiftLeft(q, s)), ShiftLeft(<<1>>, s - 1), e + s)
        Fit(len) ==
            IF len = 0 THEN Zero
            ELSE IF len <= Precision
            THEN Finite(ShiftLeft(n, Precision - len), e - (Precision - len))
            ELSE Kept(ShiftRight(n, len - Precision), len - Precision)
    IN  Fit(BitLength(n))

\* float(n) for an int 0 <= n < 2^31
FromNat(n) == Nearest(FALSE, FromInt(n), 0, FALSE)

\* |x| < |y|
MagLess(x, y) ==
    IF x.inf THEN FALSE
    ELSE IF y.inf THEN TRUE
    ELSE IF y.m = <<>> THEN FALSE
    ELSE IF x.m = <<>> THEN TRUE
    ELSE x.e < y.e \/ (x.e = y.e /\ BigLess(x.m, y.m))

\* x < y
FLess(x, y) ==
    IF x.neg /\ y.neg THEN MagLess(y, x)
    ELSE IF x.neg THEN TRUE
    ELSE IF y.neg THEN FALSE
    ELSE MagLess(x, y)

\* x <= y
FLeq(x, y) == ~FLess(y, x)

\* min(x, y) and max(x, y)
FMin(x, y) == IF FLess(y, x) THEN y ELSE x

FMax(x, y) == IF FLess(x, y) THEN y ELSE x

\* x + y
FAdd(x, y) ==
    LET \* big + small, for |big| >= |small|, on their common exponent c
        Sum(big, small, c) ==
            Nearest(big.neg,
                    IF big.neg = small.neg
                    THEN BigAdd(ShiftLeft(big.m, big.e - c), ShiftLeft(small.m, small.e - c))
                    ELSE BigSub(ShiftLeft(big.m, big.e - c), ShiftLeft(small.m, small.e - c)),
                    c, FALSE)
        \* a small that is under an eighth of the last place of big leaves it as it is
        Near(big, small) ==
            IF big.e - small.e > Precision + 2 THEN big ELSE Sum(big, small, small.e)
        Ordered(swap) == Near(IF swap THEN y ELSE x, IF swap THEN x ELSE y)
    IN  IF x.inf THEN x
        ELSE IF y.inf THEN y
        ELSE IF x.m = <<>> THEN y
        ELSE IF y.m = <<>> THEN x
        ELSE Ordered(MagLess(x, y))

\* x - y
FSub(x, y) == FAdd(x, Negate(y))

\* x * y
FMul(x, y) ==
    IF (x.m = <<>> /\ ~x.inf) \/ (y.m = <<>> /\ ~y.inf) THEN Zero
    ELSE IF x.inf \/ y.inf THEN [Infinity EXCEPT !.neg = (x.neg # y.neg)]
    ELSE Nearest(x.neg # y.neg, BigMul(x.m, y.m), x.e + y.e, FALSE)

\* x / d for an int (or an integral float) 0 < d < Limb
FDiv(x, d) ==
    LET Quotient(dm) == Nearest(x.neg, dm.quot, x.e - 2 * LimbBits, dm.rem # 0)
    IN  IF x.inf \/ x.m = <<>> THEN x
        ELSE Quotient(BigDivMod(ShiftLeft(x.m, 2 * LimbBits), d))

\* int(x) for a finite x, |x| < 2^31
Trunc(x) ==
    LET Magnitude == IF x.m = <<>> THEN 0
                     ELSE IF x.e >= 0 THEN ToInt(ShiftLeft(x.m, x.e))
                     ELSE ToInt(ShiftRight(x.m, 0 - x.e))
    IN  IF x.neg THEN 0 - Magnitude ELSE Magnitude

\* the literal p/100 of a relevance, e.g. Rel(30) is 0.3
Rel(p) == FDiv(FromNat(p), 100)

\* the literal p of a score, e.g. Points(30) is 30
Points(p) == FromNat(p)

(***************************************************************************)
(* _extract_years_from_experience                                          *)
(*   re.findall(r'\b(\d+)(?:\+)?\s*(?:year|yr)s?\b', experience.lower())   *)
(* The result is <<>> for None and <<n>> for the integer n.                *)
(***************************************************************************)
\* the pattern matches with its first character at p
YearsMatchAt(s, p) ==
    LET \* (?:\+)? at q: where the rest of the pattern goes on
        Plus(q)   == IF q <= Len(s) /\ s[q] = "+" THEN q + 1 ELSE q
        \* \s* at q
        Spaces(q) == q + SpaceRun(s, q)
        \* (?:year|yr) at q: where it ends, 0 if it is not there
        Unit(q)   == IF StartsAt(s, q, <<"y","e","a","r">>) THEN q + 4
                     ELSE IF StartsAt(s, q, <<"y","r">>) THEN q + 2
                     ELSE 0
        \* s?\b at e
        Ends(e)   == /\ e # 0
                     /\ \/ e <= Len(s) /\ s[e] = "s" /\ WordBoundary(s, e + 1)
                        \/ WordBoundary(s, e)
    IN  /\ p <= Len(s)
        /\ IsDigit(s[p])
        /\ WordBoundary(s, p)
        /\ Ends(Unit(Spaces(Plus(p + DigitRun(s, p)))))

ExtractYearsFromExperience(experience) ==
    LET \* int(matches[0]): the digits captured by the match that starts at p
        Captured(s, p)   == <<ParseInt(SubSeq(s, p, p + DigitRun(s, p) - 1))>>
        \* starts: where the matches of findall start
        First(s, starts) == IF starts = {} THEN <<>>
                            ELSE Captured(s, CHOOSE p \in starts : \A m \in starts : p <= m)
        FindAll(s)       == First(s, {p \in 1..Len(s) : YearsMatchAt(s, p)})
    IN  FindAll(Lower(experience))

\* truth value of an Optional[int]: None and 0 are false
TruthyYears(y) == y # <<>> /\ y[1] # 0

(***************************************************************************)
(* _calculate_rule_based_score                                             *)
(***************************************************************************)
NatureBothSet(j, request) ==
    Truthy(request.jobNature) /\ Truthy(j.jobNature)

NatureEqual(j, request) ==
    Lower(request.jobNature) = Lower(j.jobNature)

NatureTerm(j, request, score) ==
    IF NatureBothSet(j, request)
    THEN IF NatureEqual(j, request)
         THEN FAdd(score, Rel(40))
         ELSE FMin(FSub(score, Rel(20)), Rel(30))
    ELSE score

\* a variant of TitleTerm that gives a word of the position the weight of the
\* whole position
TitleTermOneWeight(j, request) ==
    IF \E w \in 1..Len(SplitWs(Lower(request.position))) :
           Contains(Lower(j.job_title), SplitWs(Lower(request.position))[w])
    THEN Rel(30) ELSE Zero

TitleTerm(j, request) ==
    LET AnyWord(title_lower, words) ==
            \E w \in 1..Len(words) : Contains(title_lower, words[w])
        Term(position_lower, title_lower) ==
            IF Contains(title_lower, position_lower) THEN Rel(30)
            ELSE IF AnyWord(title_lower, SplitWs(position_lower)) THEN Rel(15)
            ELSE Zero
    IN  Term(Lower(request.position), Lower(j.job_title))

SkillsTerm(j, request) ==
    LET Skills(parts) == [k \in 1..Len(parts) |-> Lower(Strip(parts[k]))]
        Term(skills, description_lower) ==
            FMul(Rel(20),
                 FDiv(FromNat(Cardinality({k \in 1..Len(skills) :
                                             Contains(description_lower, skills[k])})),
                      Len(skills)))
    IN  IF Truthy(request.skills) /\ Truthy(j.description)
        THEN Term(Skills(SplitOn(request.skills, ",")), Lower(j.description))
        ELSE Zero

LocationTerm(j, request) ==
    LET Term(location_parts, job_location_lower) ==
            IF \E k \in 1..Len(location_parts) :
                   Contains(job_location_lower, Strip(location_parts[k]))
            THEN Rel(10) ELSE Zero
    IN  IF Truthy(request.location) /\ Truthy(j.location)
        THEN Term(SplitOn(Lower(request.location), ","), Lower(j.location))
        ELSE Zero

ExperienceTerm(j, request) ==
    LET Term(user_years, job_years) ==
            IF /\ TruthyYears(user_years)
               /\ TruthyYears(job_years)
               /\ job_years[1] <= user_years[1]
            THEN Rel(10) ELSE Zero
    IN  IF Truthy(request.experience) /\ Truthy(j.experience)
        THEN Term(ExtractYearsFromExperience(request.experience),
                  ExtractYearsFromExperience(j.experience))
        ELSE Zero

\* a variant of NatureCap without the cap
Uncapped(j, request, score) == score

NatureCap(j, request, score) ==
    IF NatureBothSet(j, request) /\ ~NatureEqual(j, request)
    THEN FMin(score, Rel(30))
    ELSE score

CalculateRuleBasedScore(j, request) ==
    FMin(Rel(100), FMax(Zero, NatureCap(j, request,
        FAdd(FAdd(FAdd(FAdd(NatureTerm(j, request, Rel(30)),
                            TitleTerm(j, request)),
                       SkillsTerm(j, request)),
                  LocationTerm(j, request)),
             ExperienceTerm(j, request)))))

(***************************************************************************)
(* float() of a digit string, int() of a float, and the percentage text    *)
(***************************************************************************)
\* the largest finite double has 309 digits: more digits convert to inf
InfDigits == 309 + 1

\* the number of leading "0" characters of ds
ZeroRun(ds) ==
    IF \A k \in 1..Len(ds) : ds[k] = "0" THEN Len(ds)
    ELSE (CHOOSE k \in 1..Len(ds) : ds[k] # "0" /\ \A m \in 1..(k - 1) : ds[m] = "0") - 1

\* int(ds) for a string of digits, read four at a time; the first group takes
\* the digits that are left over
ParseBig(ds) ==
    LET groups   == (Len(ds) + 3) \div 4
        Group(k) == SubSeq(ds, Max(1, Len(ds) - 4 * (groups - k) - 3),
                           Len(ds) - 4 * (groups - k))
        Step(v, k) == Once(BigAdd(BigTimes(v, 10 ^ 4), FromInt(ParseInt(Group(k)))))
        \* the number of the first k groups (the set {value[k - 1]} has the
        \* number computed before the step is taken on it)
        value[k \in 0..groups] ==
            IF k = 0 THEN <<>>
            ELSE CHOOSE r \in {Step(v, k) : v \in {value[k - 1]}} : TRUE
    IN  value[groups]

\* float(ds) for a string of digits
ParseFloat(ds) ==
    IF Len(ds) - ZeroRun(ds) >= InfDigits THEN Infinity
    ELSE Nearest(FALSE, ParseBig(ds), 0, FALSE)

\* score * 0.3
TimesThreeTenths(score) == FMul(score, Rel(30))

\* score / 100.0: a 0..100 score as a relevance
ToRelevance(score) == FDiv(score, 100)

\* rule_score * 100: a relevance as a 0..100 score
ToScore(rel) == FMul(rel, FromNat(100))

\* str(n) for n >= 0
FormatInt(n) ==
    LET len == CHOOSE d \in 1..9 : n < 10 ^ d /\ (d = 1 \/ n >= 10 ^ (d - 1))
    IN  [k \in 1..len |-> DigitChars[((n \div (10 ^ (len - k))) % 10) + 1]]

\* f"{int(score)}%" for a 0..100 score; int(inf) raises
IntRaises(score) == score.inf

PercentOfScore(score) == FormatInt(Trunc(score)) \o <<"%">>

\* f"{int(rule_score * 100)}%" for a relevance
PercentOfRelevance(rel) == FormatInt(Trunc(ToScore(rel))) \o <<"%">>

(***************************************************************************)
(* _score_single_job: the parse of the model's reply                       *)
(***************************************************************************)
\* re.search(r'SCORE:\s*(\d+)', content): where the captured digits start, 0 if no match
PrimaryDigitsAt(content, p) ==
    IF StartsAt(content, p, <<"S","C","O","R","E",":">>)
    THEN LET q == p + 6 + SpaceRun(content, p + 6)
         IN  IF DigitRun(content, q) > 0 THEN q ELSE 0
    ELSE 0

\* the captured group of the leftmost match: <<digits>>, or <<>> if there is no match
PrimaryMatch(content) ==
    LET Group1(q)     == <<SubSeq(content, q, q + DigitRun(content, q) - 1)>>
        \* starts: where the pattern matches
        Search(starts) ==
            IF starts = {} THEN <<>>
            ELSE Group1(PrimaryDigitsAt(content, CHOOSE p \in starts : \A m \in starts : p <= m))
    IN  Search({p \in 1..Len(content) : PrimaryDigitsAt(content, p) # 0})

\* re.search(r'(\d+)/100|(\d+)%|score.*?(\d+)|(\d+)(?:\s*point)', content, re.IGNORECASE)
\* on the lowered content s: where the captured digits start when the match
\* starts at p, 0 if none starts there
NumericDigitsAt(s, p) ==
    LET \* a run of d digits at p, then /100, % or \s*point
        Digits(d) ==
            IF \/ StartsAt(s, p + d, <<"/","1","0","0">>)
               \/ StartsAt(s, p + d, <<"%">>)
               \/ StartsAt(s, p + d + SpaceRun(s, p + d), <<"p","o","i","n","t">>)
            THEN p ELSE 0
        \* score.*?(\d+): the first digit on the line, after the word
        Word(digits) ==
            IF digits = {} THEN 0 ELSE CHOOSE q \in digits : \A m \in digits : q <= m
    IN  IF p <= Len(s) /\ IsDigit(s[p]) THEN Digits(DigitRun(s, p))
        ELSE IF StartsAt(s, p, <<"s","c","o","r","e">>)
        THEN Word({q \in (p + 5)..Len(s) :
                      IsDigit(s[q]) /\ \A m \in (p + 5)..(q - 1) : s[m] # "\n"})
        ELSE 0

\* the captured group of the leftmost match: <<digits>>, or <<>> if there is no match
NumericMatch(content) ==
    LET Group(s, q)       == <<SubSeq(s, q, q + DigitRun(s, q) - 1)>>
        \* starts: where the pattern matches
        Search(s, starts) ==
            IF starts = {} THEN <<>>
            ELSE Group(s, NumericDigitsAt(s, CHOOSE p \in starts : \A m \in starts : p <= m))
        Lowered(s)        == Search(s, {p \in 1..Len(s) : NumericDigitsAt(s, p) # 0})
    IN  Lowered(Lower(content))

\* a variant of MismatchGuard that keeps the parsed score
Unguarded(j, request, score) == score

\* the penalty for a nature mismatch the model did not apply itself
MismatchGuard(j, request, score) ==
    IF /\ NatureBothSet(j, request)
       /\ ~NatureEqual(j, request)
       /\ FLess(Points(30), score)
    THEN FMin(Points(30), TimesThreeTenths(score))
    ELSE score

\* the returned {"score", "explanation"}: its score, and in via which branch the
\* score was made.  reply is [raises |-> TRUE, content |-> None] for an ainvoke
\* that raises and [raises |-> FALSE, content |-> text] otherwise.
ScoreSingleJob(j, request, reply) ==
    LET Returned(rule_score, score_match, numeric_match) ==
            IF reply.raises
            THEN [score |-> ToScore(rule_score), via |-> "rules_on_error"]
            ELSE IF score_match # <<>>
            THEN [score |-> MismatchGuard(j, request, ParseFloat(score_match[1])),
                  via |-> "llm"]
            ELSE IF numeric_match # <<>>
            THEN [score |-> MismatchGuard(j, request, ParseFloat(numeric_match[1])),
                  via |-> "llm"]
            ELSE [score |-> ToScore(rule_score), via |-> "rules_on_parse"]
    IN  Returned(CalculateRuleBasedScore(j, request),
                 PrimaryMatch(reply.content), NumericMatch(reply.content))

(***************************************************************************)
(* The postings and requests the service is run on                         *)
(***************************************************************************)
\* number of postings of the pool
MaxJobs == 10

\* Job(...) as constructed by a collector: both relevance fields are unset
NewJob(job_title, company, jobNature, description, location, experience, salary, source) ==
    [job_title |-> job_title, company |-> company, experience |-> experience,
     jobNature |-> jobNature, location |-> location, salary |-> salary,
     apply_link |-> <<"h","t","t","p",":","/","/">> \o Lower(source),
     description |-> description, source |-> source,
     relevance_score |-> <<>>, relevance_percentage |-> None]

JobTable == <<
    NewJob(<<"F","u","l","l"," ","S","t","a","c","k"," ","E","n","g","i","n","e","e","r">>,
           <<"X","Y","Z">>,
           <<"o","n","s","i","t","e">>,
           <<"N","o","d","e",".","j","s"," ","a","n","d"," ","R","e","a","c","t",".","j","s">>,
           <<"P","e","s","h","a","w","a","r",","," ","P","a","k","i","s","t","a","n">>,
           <<"2","+"," ","y","e","a","r","s">>,
           <<"1","0","0",",","0","0","0"," ","P","K","R">>,
           <<"L","i","n","k","e","d","I","n">>),
    NewJob(<<"F","u","l","l"," ","S","t","a","c","k"," ","E","n","g","i","n","e","e","r">>,
           <<"A","B","C">>,
           <<"r","e","m","o","t","e">>,
           <<"N","o","d","e",".","j","s"," ","a","n","d"," ","R","e","a","c","t",".","j","s">>,
           <<"K","a","r","a","c","h","i">>,
           <<"1"," ","y","e","a","r">>,
           None,
           <<"I","n","d","e","e","d">>),
    NewJob(<<"M","E","R","N"," ","S","t","a","c","k"," ","D","e","v","e","l","o","p","e","r">>,
           <<"A","B","C">>,
           <<"o","n","s","i","t","e">>,
           <<"R","e","a","c","t",".","j","s">>,
           None,
           <<"2"," ","y","e","a","r","s">>,
           <<"9","0",",","0","0","0"," ","P","K","R">>,
           <<"I","n","d","e","e","d">>),
    NewJob(<<"F","u","l","l"," ","S","t","a","c","k"," ","E","n","g","i","n","e","e","r">>,
           <<"W","e","b">>,
           <<"O","n","s","i","t","e">>,
           None,
           <<"L","a","h","o","r","e",","," ","P","a","k","i","s","t","a","n">>,
           <<"3","-","5"," ","y","e","a","r","s">>,
           None,
           <<"R","o","z","e","e",".","p","k">>),
    NewJob(<<"B","a","c","k","e","n","d"," ","E","n","g","i","n","e","e","r">>,
           <<"W","e","b">>,
           <<"o","n","s","i","t","e">>,
           <<"N","o","d","e",".","j","s">>,
           <<"P","e","s","h","a","w","a","r">>,
           <<"0"," ","y","e","a","r","s">>,
           None,
           <<"G","l","a","s","s","d","o","o","r">>),
    NewJob(<<"D","a","t","a"," ","A","n","a","l","y","s","t">>,
           <<"X","Y","Z">>,
           <<"o","n","s","i","t","e">>,
           None,
           None,
           None,
           None,
           <<"L","i","n","k","e","d","I","n">>),
    NewJob(<<"F","u","l","l"," ","S","t","a","c","k"," ","E","n","g","i","n","e","e","r">>,
           <<"X","Y","Z">>,
           <<"o","n","s","i","t","e">>,
           <<"P","H","P">>,
           <<"K","a","r","a","c","h","i">>,
           <<"5"," ","y","e","a","r","s">>,
           None,
           <<"G","o","o","g","l","e">>),
    NewJob(<<"F","u","l","l"," ","S","t","a","c","k"," ","E","n","g","i","n","e","e","r">>,
           <<"S","o","f","t">>,
           None,
           <<"N","o","d","e",".","j","s"," ","a","n","d"," ","R","e","a","c","t",".","j","s">>,
           <<"P","e","s","h","a","w","a","r">>,
           <<"2"," ","y","r","s">>,
           None,
           <<"I","n","d","e","e","d">>),
    NewJob(<<"F","r","o","n","t","e","n","d"," ","D","e","v","e","l","o","p","e","r">>,
           <<"S","o","f","t">>,
           <<"H","y","b","r","i","d">>,
           <<"R","e","a","c","t",".","j","s">>,
           <<"P","e","s","h","a","w","a","r">>,
           None,
           None,
           <<"G","l","a","s","s","d","o","o","r">>),
    NewJob(<<"F","u","l","l"," ","S","t","a","c","k"," ","E","n","g","i","n","e","e","r">>,
           <<"S","o","f","t">>,
           <<"N","o","t"," ","s","p","e","c","i","f","i","e","d">>,
           None,
           None,
           None,
           None,
           <<"R","o","z","e","e",".","p","k">>)
    >>

\* the element of index i of a table that repeats past its end
Cycle(table, i) == table[((i - 1) % Len(table)) + 1]

\* the posting of index i
JobAt(i) == Cycle(JobTable, i)

JobIds == 1..MaxJobs

\* the first n postings, in pool order
Prefix(n) == [k \in 1..n |-> k]

InputLists == {Prefix(0), Prefix(3), Prefix(6), Prefix(MaxJobs)}

JobRequest(position, jobNature, skills, location, experience) ==
    [position |-> position, experience |-> experience, salary |-> None,
     jobNature |-> jobNature, location |-> location, skills |-> skills]

ReqOnsite ==
    JobRequest(<<"F","u","l","l"," ","S","t","a","c","k"," ","E","n","g","i","n","e","e","r">>,
               <<"o","n","s","i","t","e">>,
               <<"N","o","d","e",".","j","s",","," ","R","e","a","c","t",".","j","s">>,
               None,
               None)

ReqOnsitePhp ==
    JobRequest(<<"F","u","l","l"," ","S","t","a","c","k"," ","E","n","g","i","n","e","e","r">>,
               <<"o","n","s","i","t","e">>,
               <<"P","H","P">>,
               None,
               None)

ReqAny ==
    JobRequest(<<"E","n","g","i","n","e","e","r">>,
               None,
               None,
               <<"P","e","s","h","a","w","a","r",","," ","P","a","k","i","s","t","a","n">>,
               <<"2"," ","y","e","a","r","s">>)

ReqRemote ==
    JobRequest(<<"F","u","l","l"," ","S","t","a","c","k"," ","E","n","g","i","n","e","e","r">>,
               <<"R","e","m","o","t","e">>,
               None,
               None,
               None)

Requests == {ReqOnsite, ReqOnsitePhp, ReqAny, ReqRemote}

Thresholds == {Rel(5), Rel(20), Rel(50)}

(***************************************************************************)
(* The external model (self.llm): what ainvoke gives for a posting.  A     *)
(* behaviour of the model is a table of replies by posting; an entry is a  *)
(* reply text or None, for an invocation that raises.                      *)
(***************************************************************************)
\* a SCORE line whose number is too large for a finite float
HugeReply == <<"S","C","O","R","E",":"," ">> \o [k \in 1..InfDigits |-> "9"]

Calibrated == <<
    <<"S","C","O","R","E",":"," ","9","5","\n","E","X","P","L","A","N","A","T","I","O","N",":"," ","e","x","a","c","t"," ","t","i","t","l","e">>,
    <<"S","C","O","R","E",":"," ","1","5">>,
    <<"S","C","O","R","E",":"," ","6","0">>,
    <<"S","C","O","R","E",":"," ","9","0","\n","E","X","P","L","A","N","A","T","I","O","N",":"," ","g","o","o","d">>,
    <<"S","C","O","R","E",":"," ","5","5">>,
    <<"S","C","O","R","E",":"," ","2","5">>,
    <<"S","C","O","R","E",":"," ","8","0">>,
    <<"S","C","O","R","E",":"," ","7","0">>,
    <<"S","C","O","R","E",":"," ","1","5">>,
    <<"S","C","O","R","E",":"," ","1","5">>
    >>

Sloppy == <<
    <<"S","C","O","R","E",":"," ","1","5","0">>,
    <<"S","C","O","R","E",":"," ","8","5">>,
    <<"I","'","d"," ","s","a","y"," ","7","0","/","1","0","0">>,
    <<"a","b","o","u","t"," ","4","5","%"," ","m","a","t","c","h">>,
    <<"s","c","o","r","e"," ","i","s"," ","9","0">>,
    <<"6","0"," ","p","o","i","n","t","s">>,
    <<"S","C","O","R","E",":","1","0","0">>,
    <<"S","C","O","R","E",":"," ","1","2","0">>,
    <<"S","C","O","R","E",":"," ","4","0">>,
    <<"S","C","O","R","E",":"," ","3","1">>
    >>

Flaky == <<
    None,
    <<"S","C","O","R","E",":"," ","3","0">>,
    <<"n","o"," ","i","d","e","a">>,
    HugeReply,
    <<"S","C","O","R","E",":"," ","1","2">>,
    <<"S","C","O","R","E",":"," ","5">>,
    <<"S","C","O","R","E",":"," ","0">>,
    <<"S","C","O","R","E",":"," ","8","5">>,
    None,
    <<"n","/","a">>
    >>

LLMs == {"Calibrated", "Sloppy", "Flaky"}

Replies(model) ==
    CASE model = "Calibrated" -> Calibrated
      [] model = "Sloppy" -> Sloppy
      [] model = "Flaky" -> Flaky

\* await self.llm.ainvoke(...) for the posting of index i
Ainvoke(model, i) ==
    LET Reply(content) == [raises |-> content = None, content |-> content]
    IN  Reply(Cycle(Replies(model), i))

(***************************************************************************)
(* Program constants                                                       *)
(***************************************************************************)
\* batch_size of _score_jobs_with_ai_batch
BatchSize == 3

\* the number of scored matching postings from which filter returns them alone
EnoughMatching == 5

(***************************************************************************)
(* State                                                                   *)
(***************************************************************************)
VARIABLES
    using_ai,               \* self.using_ai
    llm,                    \* self.llm: which behaviour the external model has
    score_cache,            \* self.score_cache: cache key -> score (0..100 scale)
    job,                    \* the Job objects of the pool, by index
    pc,                     \* where the filter call stands
    input,                  \* filter's jobs argument (indices into job)
    job_request,            \* filter's job_request argument
    threshold,              \* filter's threshold argument
    nature_matching_jobs,   \* filter's local
    non_matching_jobs,      \* filter's local
    scored_matching_jobs,   \* filter's local
    phase,                  \* which partition the batch scorer is running on
    offset,                 \* the batch scorer's loop index i
    tasks,                  \* the batch scorer's tasks still to await, <<job, cache_key>>
    inflight,               \* the awaited task with what it returned, <<>> if none
    all_scored_jobs,        \* the batch scorer's local
    result,                 \* what the filter call returned
    outcome,                \* "none", "returned" or "raised": how the call ended
    invoked,                \* history: the postings ainvoke was issued for, in order
    how,                    \* history: what assigned each posting's score in this call
    fell_back               \* history: the call took the whole-batch rule fallback

vars == <<using_ai, llm, score_cache, job, pc, input, job_request, threshold,
          nature_matching_jobs, non_matching_jobs, scored_matching_jobs, phase,
          offset, tasks, inflight, all_scored_jobs, result, outcome, invoked, how,
          fell_back>>

service == <<using_ai, llm>>

arguments == <<input, job_request, threshold>>

(***************************************************************************)
(* Helpers of the filter                                                   *)
(***************************************************************************)
\* str(x) inside an f-string: None prints as "None"
FormatStr(x) == IF x = None THEN <<"N","o","n","e">> ELSE x

Underscore == <<"_">>

\* request_key of _score_jobs_with_ai_batch
RequestKey(request) ==
    FormatStr(request.position) \o Underscore \o FormatStr(request.location)
        \o Underscore \o FormatStr(request.jobNature)
        \o Underscore \o FormatStr(request.experience)

\* a variant of CacheKey made of everything the scorers read
CacheKeyOfAllFields(request, j) ==
    RequestKey(request) \o Underscore \o FormatStr(request.skills) \o Underscore
        \o FormatStr(j.job_title) \o Underscore \o FormatStr(j.company) \o Underscore
        \o FormatStr(j.jobNature) \o Underscore \o FormatStr(j.description) \o Underscore
        \o FormatStr(j.location) \o Underscore \o FormatStr(j.experience)

\* cache_key of _score_jobs_with_ai_batch
CacheKey(request, j) ==
    RequestKey(request) \o Underscore \o FormatStr(j.job_title) \o Underscore
        \o FormatStr(j.company) \o Underscore \o FormatStr(j.jobNature)

(***************************************************************************)
(* The fields a Job is constructed with are never assigned afterwards, so  *)
(* what the scorers compute from them for the posting of index i is what   *)
(* they compute from JobAt(i); these values are tabulated once.            *)
(***************************************************************************)
RuleScoredTable ==
    [request \in Requests |-> [i \in JobIds |->
        LET Scored(score) == [score |-> score, percentage |-> PercentOfRelevance(score)]
        IN  Scored(CalculateRuleBasedScore(JobAt(i), request))]]

\* score = self._calculate_rule_based_score(job, job_request) for the posting of
\* index i, with the f"{int(score * 100)}%" made of it
RuleScored(i, request) == RuleScoredTable[request][i]

CacheKeyTable ==
    [request \in Requests |-> [i \in JobIds |-> CacheKey(request, JobAt(i))]]

\* cache_key for each posting, by index
CacheKeys(request) == CacheKeyTable[request]

SingleScoreTable ==
    [model \in LLMs |-> [request \in Requests |-> [i \in JobIds |->
        ScoreSingleJob(JobAt(i), request, Ainvoke(model, i))]]]

\* what await self._score_single_job(job, job_request, cache_key) returns
SingleScore(model, i, request) == SingleScoreTable[model][request][i]

\* the key function of both sorts: j.jobNature matches the requested nature
MatchesNature(j, requested_nature) ==
    Truthy(j.jobNature) /\ Lower(j.jobNature) = Lower(requested_nature)

\* key a sorts before key b, for keys <<flag, score>> standing for (flag, -score)
LexLess(a, b) == a[1] < b[1] \/ (a[1] = b[1] /\ FLess(b[2], a[2]))

\* sorted(seq, key=...): ascending in key, equal keys keep their order
SortedByKey(seq, key) ==
    LET keys   == Once([k \in 1..Len(seq) |-> key[seq[k]]])
        \* the place of seq[k] in the result
        places == Once([k \in 1..Len(seq) |->
                      1 + Cardinality({m \in 1..Len(seq) :
                              \/ LexLess(keys[m], keys[k])
                              \/ keys[m] = keys[k] /\ m < k})])
    IN  [p \in 1..Len(seq) |-> seq[CHOOSE k \in 1..Len(seq) : places[k] = p]]

\* a variant of SortByScore that leaves the list in the order it has
Unsorted(seq, jobs) == seq

\* list.sort(key=lambda x: x.relevance_score, reverse=True)
SortByScore(seq, jobs) ==
    SortedByKey(seq, [i \in JobIds |->
        IF jobs[i].relevance_score = <<>> THEN <<0, Zero>>
        ELSE <<0, jobs[i].relevance_score[1]>>])

\* a variant of StrictFilterByJobNature that keeps the postings without nature
StrictFilterKeepsUnset(seq, jobs, requested_nature) ==
    IF ~Truthy(requested_nature) THEN seq
    ELSE SelectSeq(seq, LAMBDA i : \/ ~Truthy(jobs[i].jobNature)
                                  \/ MatchesNature(jobs[i], requested_nature))

StrictFilterByJobNature(seq, jobs, requested_nature) ==
    IF ~Truthy(requested_nature) THEN seq
    ELSE SelectSeq(seq, LAMBDA i : MatchesNature(jobs[i], requested_nature))

\* a variant of NonMatching that keeps every posting
NonMatchingIsAll(seq, jobs, matching) == seq

\* [job for job in jobs if job not in nature_matching_jobs]: "in" compares field values
NonMatching(seq, jobs, matching) ==
    SelectSeq(seq, LAMBDA i : ~\E k \in 1..Len(matching) : jobs[matching[k]] = jobs[i])

\* a variant of PrioritizeJobsByNature that returns the list it is given
NotPrioritized(seq, jobs, requested_nature) == seq

PrioritizeJobsByNature(seq, jobs, requested_nature) ==
    IF ~Truthy(requested_nature) \/ seq = <<>> THEN seq
    ELSE SortedByKey(seq, [i \in JobIds |->
             IF jobs[i].relevance_score = <<>> THEN <<0, Zero>>
             ELSE <<IF MatchesNature(jobs[i], requested_nature) THEN 0 ELSE 1,
                    jobs[i].relevance_score[1]>>])

\* a variant of Assigned that also marks the posting's source as scored
AssignedAndStamped(j, rel, percentage) ==
    [j EXCEPT !.relevance_score = <<rel>>, !.relevance_percentage = percentage,
              !.source = j.source \o <<"*">>]

\* a variant of Assigned that leaves relevance_percentage as it is
AssignedScoreOnly(j, rel, percentage) == [j EXCEPT !.relevance_score = <<rel>>]

\* a posting with its relevance fields assigned
Assigned(j, rel, percentage) ==
    [j EXCEPT !.relevance_score = <<rel>>, !.relevance_percentage = percentage]

\* the Job objects after _score_jobs_with_rules has run on seq
RuleScoredJobs(seq, jobs, request) ==
    LET Scored(j, rule) == Assigned(j, rule.score, rule.percentage)
    IN  Once([i \in JobIds |->
            IF \E k \in 1..Len(seq) : seq[k] = i
            THEN Scored(jobs[i], RuleScored(i, request))
            ELSE jobs[i]])

\* what _score_jobs_with_rules returns; scored: the Job objects after its loop
ScoreJobsWithRules(seq, scored, request, min_score) ==
    LET Kept == SelectSeq(seq, LAMBDA i : FLeq(min_score, scored[i].relevance_score[1]))
    IN  PrioritizeJobsByNature(SortByScore(Kept, scored), scored, request.jobNature)

(***************************************************************************)
(* Construction: AIRelevanceFilteringService.__init__ and the collectors   *)
(***************************************************************************)
EmptyCache == [k \in {} |-> 0]

FreshJobs == [i \in JobIds |-> JobAt(i)]

NotScored == [i \in JobIds |-> "none"]

Init ==
    /\ using_ai \in BOOLEAN
    /\ llm \in IF using_ai THEN LLMs ELSE {"unset"}
    /\ score_cache = EmptyCache
    /\ job = FreshJobs
    /\ pc = "idle"
    /\ input = <<>>
    /\ job_request = ReqOnsite
    /\ threshold = Rel(20)
    /\ nature_matching_jobs = <<>>
    /\ non_matching_jobs = <<>>
    /\ scored_matching_jobs = <<>>
    /\ phase = "matching"
    /\ offset = 0
    /\ tasks = <<>>
    /\ inflight = <<>>
    /\ all_scored_jobs = <<>>
    /\ result = <<>>
    /\ outcome = "none"
    /\ invoked = <<>>
    /\ how = NotScored
    /\ fell_back = FALSE

(***************************************************************************)
(* filter_jobs_by_relevance                                                *)
(***************************************************************************)
\* The requests served between two calls of close agree on the fields the
\* cache key is made of: the cache holds the entries of one request key.
SameSearch(request) ==
    score_cache = EmptyCache \/ RequestKey(request) = RequestKey(job_request)

\* a call begins: the collectors hand over newly built Job objects
Enter(seq, request, min_score) ==
    /\ pc \in {"idle", "done"}
    /\ SameSearch(request)
    /\ request \in Requests
    /\ min_score \in Thresholds
    /\ input' = seq
    /\ job_request' = request
    /\ threshold' = min_score
    /\ scored_matching_jobs' = <<>>
    /\ phase' = "matching"
    /\ offset' = 0
    /\ tasks' = <<>>
    /\ inflight' = <<>>
    /\ all_scored_jobs' = <<>>
    /\ invoked' = <<>>
    /\ fell_back' = FALSE

\* if not jobs: return []
FilterEmpty ==
    \E request \in Requests, min_score \in Thresholds :
        /\ Enter(<<>>, request, min_score)
        /\ job' = FreshJobs
        /\ how' = NotScored
        /\ nature_matching_jobs' = <<>>
        /\ non_matching_jobs' = <<>>
        /\ result' = <<>>
        /\ outcome' = "returned"
        /\ pc' = "done"
        /\ UNCHANGED <<service, score_cache>>

\* not self.using_ai: return self._score_jobs_with_rules(jobs, job_request, threshold)
FilterWithRules ==
    \E seq \in InputLists, request \in Requests, min_score \in Thresholds :
        /\ seq # <<>>
        /\ ~using_ai
        /\ Enter(seq, request, min_score)
        /\ nature_matching_jobs' = StrictFilterByJobNature(seq, FreshJobs, request.jobNature)
        /\ non_matching_jobs' = NonMatching(seq, FreshJobs, nature_matching_jobs')
        /\ job' = RuleScoredJobs(seq, FreshJobs, request)
        /\ how' = [i \in JobIds |->
                      IF \E k \in 1..Len(seq) : seq[k] = i THEN "rules" ELSE "none"]
        /\ result' = ScoreJobsWithRules(seq, job', request, min_score)
        /\ outcome' = "returned"
        /\ pc' = "done"
        /\ UNCHANGED <<service, score_cache>>

\* self.using_ai: the batch scorer is entered on the matching postings
FilterWithAIOn(lists) ==
    \E seq \in lists, request \in Requests, min_score \in Thresholds :
        /\ seq # <<>>
        /\ using_ai
        /\ Enter(seq, request, min_score)
        /\ job' = FreshJobs
        /\ nature_matching_jobs' = StrictFilterByJobNature(seq, job', request.jobNature)
        /\ non_matching_jobs' = NonMatching(seq, job', nature_matching_jobs')
        /\ how' = NotScored
        /\ result' = <<>>
        /\ outcome' = "none"
        /\ pc' = "group"
        /\ UNCHANGED <<service, score_cache>>

FilterWithAI == FilterWithAIOn(InputLists)

(***************************************************************************)
(* _score_jobs_with_ai_batch                                               *)
(***************************************************************************)
\* the jobs argument of the running batch scorer
BatchJobs == IF phase = "matching" THEN nature_matching_jobs ELSE non_matching_jobs

\* jobs[i:i+batch_size]
Group == SubSeq(BatchJobs, offset + 1, Min(offset + BatchSize, Len(BatchJobs)))

\* a variant of BatchGroup that keeps every cached posting, whatever the
\* threshold of the call
BatchGroupKeepsHits ==
    /\ pc = "group"
    /\ offset < Len(BatchJobs)
    /\ LET FirstLoop(cache_key) ==
               LET Cached(i)   == cache_key[i] \in DOMAIN score_cache
                   hits        == SelectSeq(Group, Cached)
                   misses      == SelectSeq(Group, LAMBDA i : ~Cached(i))
                   Hit(j, score) == Assigned(j, ToRelevance(score), PercentOfScore(score))
               IN  /\ job' = Once([i \in JobIds |->
                                 IF \E k \in 1..Len(hits) : hits[k] = i
                                 THEN Hit(job[i], score_cache[cache_key[i]])
                                 ELSE job[i]])
                   /\ how' = [i \in JobIds |->
                                 IF \E k \in 1..Len(hits) : hits[k] = i
                                 THEN "cache" ELSE how[i]]
                   /\ all_scored_jobs' = all_scored_jobs \o hits
                   /\ tasks' = [k \in 1..Len(misses) |-> <<misses[k], cache_key[misses[k]]>>]
       IN  FirstLoop(CacheKeys(job_request))
    /\ pc' = "tasks"
    /\ UNCHANGED <<service, score_cache, arguments, nature_matching_jobs, non_matching_jobs,
                   scored_matching_jobs, phase, offset, inflight, result, outcome, invoked,
                   fell_back>>

\* the first loop over a group: cached postings are scored from the cache,
\* a task is created for each of the others
BatchGroup ==
    /\ pc = "group"
    /\ offset < Len(BatchJobs)
    /\ LET \* cache_key: the cache key of each posting under job_request
           FirstLoop(cache_key) ==
               LET Cached(i)   == cache_key[i] \in DOMAIN score_cache
                   hits        == SelectSeq(Group, Cached)
                   misses      == SelectSeq(Group, LAMBDA i : ~Cached(i))
                   Hit(j, score) == Assigned(j, ToRelevance(score), PercentOfScore(score))
               IN  /\ job' = Once([i \in JobIds |->
                                 IF \E k \in 1..Len(hits) : hits[k] = i
                                 THEN Hit(job[i], score_cache[cache_key[i]])
                                 ELSE job[i]])
                   /\ how' = [i \in JobIds |->
                                 IF \E k \in 1..Len(hits) : hits[k] = i
                                 THEN "cache" ELSE how[i]]
                   /\ all_scored_jobs' = all_scored_jobs \o
                          SelectSeq(hits, LAMBDA i : FLeq(threshold, job'[i].relevance_score[1]))
                   /\ tasks' = [k \in 1..Len(misses) |-> <<misses[k], cache_key[misses[k]]>>]
       IN  FirstLoop(CacheKeys(job_request))
    /\ pc' = "tasks"
    /\ UNCHANGED <<service, score_cache, arguments, nature_matching_jobs, non_matching_jobs,
                   scored_matching_jobs, phase, offset, inflight, result, outcome, invoked,
                   fell_back>>

\* await task_coroutine: _score_single_job runs, invokes the model and returns
AwaitTask ==
    /\ pc = "tasks"
    /\ tasks # <<>>
    /\ inflight' = <<Head(tasks) \o <<SingleScore(llm, Head(tasks)[1], job_request)>>>>
    /\ tasks' = Tail(tasks)
    /\ invoked' = Append(invoked, Head(tasks)[1])
    /\ pc' = "awaiting"
    /\ UNCHANGED <<service, score_cache, job, arguments, nature_matching_jobs,
                   non_matching_jobs, scored_matching_jobs, phase, offset, all_scored_jobs,
                   result, outcome, how, fell_back>>

\* score_result of the awaited task
Awaited == inflight[1][3]

\* a variant of TaskScored that caches the scores made from a reply only
TaskScoredCachesReplies ==
    /\ pc = "awaiting"
    /\ LET Try(i, key, score) ==
               /\ ~IntRaises(score)
               /\ job' = [job EXCEPT ![i] =
                             Assigned(job[i], ToRelevance(score), PercentOfScore(score))]
               /\ score_cache' = IF Awaited.via = "llm"
                                 THEN [k \in DOMAIN score_cache \cup {key} |->
                                          IF k = key THEN score ELSE score_cache[k]]
                                 ELSE score_cache
               /\ all_scored_jobs' = IF FLeq(threshold, job'[i].relevance_score[1])
                                     THEN Append(all_scored_jobs, i)
                                     ELSE all_scored_jobs
               /\ how' = [how EXCEPT ![i] = Awaited.via]
       IN  Try(inflight[1][1], inflight[1][2], Awaited.score)
    /\ inflight' = <<>>
    /\ pc' = "tasks"
    /\ UNCHANGED <<service, arguments, nature_matching_jobs, non_matching_jobs,
                   scored_matching_jobs, phase, offset, tasks, result, outcome, invoked,
                   fell_back>>

\* the try block of the second loop runs through
TaskScored ==
    /\ pc = "awaiting"
    /\ LET Try(i, key, score) ==
               /\ ~IntRaises(score)
               /\ job' = [job EXCEPT ![i] =
                             Assigned(job[i], ToRelevance(score), PercentOfScore(score))]
               /\ score_cache' = [k \in DOMAIN score_cache \cup {key} |->
                                     IF k = key THEN score ELSE score_cache[k]]
               /\ all_scored_jobs' = IF FLeq(threshold, job'[i].relevance_score[1])
                                     THEN Append(all_scored_jobs, i)
                                     ELSE all_scored_jobs
               /\ how' = [how EXCEPT ![i] = Awaited.via]
       IN  Try(inflight[1][1], inflight[1][2], Awaited.score)
    /\ inflight' = <<>>
    /\ pc' = "tasks"
    /\ UNCHANGED <<service, arguments, nature_matching_jobs, non_matching_jobs,
                   scored_matching_jobs, phase, offset, tasks, result, outcome, invoked,
                   fell_back>>

\* a variant of TaskFailed that puts the posting back at the head of the tasks
TaskFailedRetries ==
    /\ pc = "awaiting"
    /\ IntRaises(Awaited.score)
    /\ tasks' = <<<<inflight[1][1], inflight[1][2]>>>> \o tasks
    /\ inflight' = <<>>
    /\ pc' = "tasks"
    /\ UNCHANGED <<service, score_cache, job, arguments, nature_matching_jobs,
                   non_matching_jobs, scored_matching_jobs, phase, offset, all_scored_jobs,
                   result, outcome, invoked, how, fell_back>>

\* the try block raises (int() of an infinite score): the except block of the
\* second loop scores the posting by rules; nothing is cached
TaskFailed ==
    /\ pc = "awaiting"
    /\ IntRaises(Awaited.score)
    /\ LET Except(i, rule) ==
               /\ job' = [job EXCEPT ![i] = Assigned(job[i], rule.score, rule.percentage)]
               /\ all_scored_jobs' = IF FLeq(threshold, rule.score)
                                     THEN Append(all_scored_jobs, i) ELSE all_scored_jobs
               /\ how' = [how EXCEPT ![i] = "rules_on_item"]
       IN  Except(inflight[1][1], RuleScored(inflight[1][1], job_request))
    /\ inflight' = <<>>
    /\ pc' = "tasks"
    /\ UNCHANGED <<service, score_cache, arguments, nature_matching_jobs, non_matching_jobs,
                   scored_matching_jobs, phase, offset, tasks, result, outcome, invoked,
                   fell_back>>

\* a variant of NextGroup that does not wait for the tasks of the group
NextGroupEarly ==
    /\ pc = "tasks"
    /\ offset' = offset + BatchSize
    /\ pc' = "group"
    /\ UNCHANGED <<service, score_cache, job, arguments, nature_matching_jobs,
                   non_matching_jobs, scored_matching_jobs, phase, tasks, inflight,
                   all_scored_jobs, result, outcome, invoked, how, fell_back>>

\* the tasks of the group are done: the loop goes to the next group
NextGroup ==
    /\ pc = "tasks"
    /\ tasks = <<>>
    /\ offset' = offset + BatchSize
    /\ pc' = "group"
    /\ UNCHANGED <<service, score_cache, job, arguments, nature_matching_jobs,
                   non_matching_jobs, scored_matching_jobs, phase, tasks, inflight,
                   all_scored_jobs, result, outcome, invoked, how, fell_back>>

\* the batch scorer has left its loop and sorts what it returns
BatchDone == pc = "group" /\ offset >= Len(BatchJobs)

Sorted == SortByScore(all_scored_jobs, job)

Return(seq) ==
    /\ result' = seq
    /\ outcome' = "returned"
    /\ pc' = "done"

\* a variant of ReturnMatching that goes on to the other postings however many
\* matching postings were kept
ScoreOthersAnyway ==
    /\ BatchDone
    /\ phase = "matching"
    /\ Len(Sorted) >= EnoughMatching
    /\ non_matching_jobs # <<>>
    /\ scored_matching_jobs' = Sorted
    /\ phase' = "non_matching"
    /\ offset' = 0
    /\ all_scored_jobs' = <<>>
    /\ UNCHANGED <<service, score_cache, job, pc, arguments, nature_matching_jobs,
                   non_matching_jobs, tasks, inflight, result, outcome, invoked, how,
                   fell_back>>

\* the matching postings are scored: enough of them, or nothing else to score
ReturnMatching ==
    /\ BatchDone
    /\ phase = "matching"
    /\ Len(Sorted) >= EnoughMatching \/ non_matching_jobs = <<>>
    /\ scored_matching_jobs' = Sorted
    /\ Return(Sorted)
    /\ UNCHANGED <<service, score_cache, job, arguments, nature_matching_jobs,
                   non_matching_jobs, phase, offset, tasks, inflight, all_scored_jobs,
                   invoked, how, fell_back>>

\* too few matching postings: the batch scorer is entered on the others
ScoreNonMatching ==
    /\ BatchDone
    /\ phase = "matching"
    /\ Len(Sorted) < EnoughMatching
    /\ non_matching_jobs # <<>>
    /\ scored_matching_jobs' = Sorted
    /\ phase' = "non_matching"
    /\ offset' = 0
    /\ all_scored_jobs' = <<>>
    /\ UNCHANGED <<service, score_cache, job, pc, arguments, nature_matching_jobs,
                   non_matching_jobs, tasks, inflight, result, outcome, invoked, how,
                   fell_back>>

\* both partitions are scored: combine, sort, put the matching postings first
ReturnCombined ==
    /\ BatchDone
    /\ phase = "non_matching"
    /\ LET combined_jobs == SortByScore(scored_matching_jobs \o Sorted, job)
       IN  Return(PrioritizeJobsByNature(combined_jobs, job, job_request.jobNature))
    /\ UNCHANGED <<service, score_cache, job, arguments, nature_matching_jobs,
                   non_matching_jobs, scored_matching_jobs, phase, offset, tasks, inflight,
                   all_scored_jobs, invoked, how, fell_back>>

\* a variant of BatchError without filter's except block: the Exception
\* reaches the caller
BatchErrorUncaught ==
    /\ pc = "group"
    /\ outcome' = "raised"
    /\ pc' = "done"
    /\ result' = <<>>
    /\ fell_back' = TRUE
    /\ UNCHANGED <<service, score_cache, job, arguments, nature_matching_jobs,
                   non_matching_jobs, scored_matching_jobs, phase, offset, tasks, inflight,
                   all_scored_jobs, invoked, how>>

\* a variant of BatchError whose except block scores the batch scorer's own
\* list by rules, not filter's whole input
BatchErrorOnBatchJobs ==
    /\ pc = "group"
    /\ job' = RuleScoredJobs(BatchJobs, job, job_request)
    /\ how' = [i \in JobIds |->
                  IF \E k \in 1..Len(BatchJobs) : BatchJobs[k] = i THEN "rules" ELSE how[i]]
    /\ fell_back' = TRUE
    /\ Return(ScoreJobsWithRules(BatchJobs, job', job_request, threshold))
    /\ UNCHANGED <<service, score_cache, arguments, nature_matching_jobs, non_matching_jobs,
                   scored_matching_jobs, phase, offset, tasks, inflight, all_scored_jobs,
                   invoked>>

\* an Exception leaves the batch scorer (raised outside the try block of its
\* second loop): filter's except block scores the whole input by rules
BatchError ==
    /\ pc = "group"
    /\ job' = RuleScoredJobs(input, job, job_request)
    /\ how' = [i \in JobIds |->
                  IF \E k \in 1..Len(input) : input[k] = i THEN "rules" ELSE how[i]]
    /\ fell_back' = TRUE
    /\ Return(ScoreJobsWithRules(input, job', job_request, threshold))
    /\ UNCHANGED <<service, score_cache, arguments, nature_matching_jobs, non_matching_jobs,
                   scored_matching_jobs, phase, offset, tasks, inflight, all_scored_jobs,
                   invoked>>

(***************************************************************************)
(* close                                                                   *)
(***************************************************************************)
Close ==
    /\ pc \in {"idle", "done"}
    /\ using_ai
    /\ score_cache # EmptyCache
    /\ score_cache' = EmptyCache
    /\ UNCHANGED <<service, job, pc, arguments, nature_matching_jobs, non_matching_jobs,
                   scored_matching_jobs, phase, offset, tasks, inflight, all_scored_jobs,
                   result, outcome, invoked, how, fell_back>>

Next ==
    \/ FilterEmpty
    \/ FilterWithRules
    \/ FilterWithAI
    \/ BatchGroup
    \/ AwaitTask
    \/ TaskScored
    \/ TaskFailed
    \/ NextGroup
    \/ ReturnMatching
    \/ ScoreNonMatching
    \/ ReturnCombined
    \/ BatchError
    \/ Close

Spec == Init /\ [][Next]_vars

(***************************************************************************)
(* The service with a model on lists that hold a posting twice over: two   *)
(* postings of one title, company and nature, which share a cache key, in  *)
(* one group of the batch scorer                                           *)
(***************************************************************************)
Reposted == <<1, 7, 4>>

RepostedLists == {Prefix(3), Reposted}

RepostedInit == Init /\ using_ai

FilterReposted == FilterWithAIOn(RepostedLists)

RepostedNext ==
    \/ FilterReposted
    \/ BatchGroup
    \/ AwaitTask
    \/ TaskScored
    \/ TaskFailed
    \/ NextGroup
    \/ ReturnMatching
    \/ ScoreNonMatching
    \/ ReturnCombined
    \/ BatchError
    \/ Close

RepostedSpec == RepostedInit /\ [][RepostedNext]_vars

\* a call's own steps
CallStep ==
    \/ BatchGroup
    \/ AwaitTask
    \/ TaskScored
    \/ TaskFailed
    \/ NextGroup
    \/ ReturnMatching
    \/ ScoreNonMatching
    \/ ReturnCombined

(***************************************************************************)
(* The rule scorer on one posting: _score_jobs_with_rules([job], ...)      *)
(***************************************************************************)
RuleTitles ==
    {<<"S","e","n","i","o","r"," ","F","u","l","l"," ","S","t","a","c","k"," ","E","n","g","i","n","e","e","r">>,
     <<"M","E","R","N"," ","S","t","a","c","k"," ","D","e","v","e","l","o","p","e","r">>,
     <<"D","a","t","a"," ","A","n","a","l","y","s","t">>}

RuleNatures == {None, <<"O","n","s","i","t","e">>, <<"r","e","m","o","t","e">>}

RuleDescriptions == {None, <<"N","o","d","e",".","j","s">>, <<"N","o","d","e",".","j","s"," ","a","n","d"," ","R","e","a","c","t",".","j","s">>}

RuleLocations == {None, <<"P","e","s","h","a","w","a","r">>, <<"K","a","r","a","c","h","i">>}

RuleExperiences ==
    {None, <<"0"," ","y","e","a","r","s">>, <<"1"," ","y","e","a","r">>,
     <<"3","-","5"," ","y","e","a","r","s">>}

RulePostings ==
    {NewJob(t, <<"X","Y","Z">>, n, d, l, e, None, <<"I","n","d","e","e","d">>) :
        t \in RuleTitles, n \in RuleNatures, d \in RuleDescriptions,
        l \in RuleLocations, e \in RuleExperiences}

RuleRequests ==
    {JobRequest(<<"F","u","l","l"," ","S","t","a","c","k"," ","E","n","g","i","n","e","e","r">>, n, s, l, e) :
        n \in {None, <<>>, <<"o","n","s","i","t","e">>},
        s \in {None, <<"N","o","d","e",".","j","s",","," ","R","e","a","c","t",".","j","s">>, <<"N","o","d","e",".","j","s",","," ","R","e","a","c","t",".","j","s",","," ","P","H","P">>},
        l \in {None, <<"P","e","s","h","a","w","a","r",","," ","P","a","k","i","s","t","a","n">>},
        e \in {None, <<"2"," ","y","e","a","r","s">>, <<"0"," ","y","e","a","r","s">>}}

RuleInit ==
    /\ using_ai = FALSE
    /\ llm = "unset"
    /\ score_cache = EmptyCache
    /\ job \in {<<p>> : p \in RulePostings}
    /\ pc = "idle"
    /\ input = <<1>>
    /\ job_request \in RuleRequests
    /\ threshold = Rel(20)
    /\ nature_matching_jobs = <<>>
    /\ non_matching_jobs = <<>>
    /\ scored_matching_jobs = <<>>
    /\ phase = "matching"
    /\ offset = 0
    /\ tasks = <<>>
    /\ inflight = <<>>
    /\ all_scored_jobs = <<>>
    /\ result = <<>>
    /\ outcome = "none"
    /\ invoked = <<>>
    /\ how = NotScored
    /\ fell_back = FALSE

\* _score_jobs_with_rules on the list of the one posting
ScoreOneByRules ==
    /\ pc = "idle"
    /\ LET Loop(score) == job' = <<Assigned(job[1], score, PercentOfRelevance(score))>>
       IN  Loop(CalculateRuleBasedScore(job[1], job_request))
    /\ Return(ScoreJobsWithRules(input, job', job_request, threshold))
    /\ UNCHANGED <<service, score_cache, arguments, nature_matching_jobs, non_matching_jobs,
                   scored_matching_jobs, phase, offset, tasks, inflight, all_scored_jobs,
                   invoked, how, fell_back>>

RuleSpec == RuleInit /\ [][ScoreOneByRules]_vars

(***************************************************************************)
(* standardize_job_nature of SearchService and of BaseScraper, and         *)
(* BaseScraper.get_mock_jobs                                               *)
(***************************************************************************)
remote_keywords ==
    <<<<"r","e","m","o","t","e">>,
      <<"w","o","r","k"," ","f","r","o","m"," ","h","o","m","e">>,
      <<"w","f","h">>,
      <<"v","i","r","t","u","a","l">>>>

hybrid_keywords ==
    <<<<"h","y","b","r","i","d">>,
      <<"f","l","e","x","i","b","l","e">>,
      <<"p","a","r","t"," ","r","e","m","o","t","e">>>>

onsite_keywords ==
    <<<<"o","n","s","i","t","e">>,
      <<"o","n","-","s","i","t","e">>,
      <<"i","n"," ","o","f","f","i","c","e">>,
      <<"o","n"," ","l","o","c","a","t","i","o","n">>,
      <<"i","n","-","p","e","r","s","o","n">>>>

RemoteName == <<"R","e","m","o","t","e">>

HybridName == <<"H","y","b","r","i","d">>

\* a variant of OnsiteName in two words
OnSiteName == <<"O","n"," ","s","i","t","e">>

OnsiteName == <<"O","n","s","i","t","e">>

NotSpecified == <<"N","o","t"," ","s","p","e","c","i","f","i","e","d">>

\* any(keyword in text_lower for keyword in keywords)
AnyKeyword(text_lower, keywords) ==
    \E k \in 1..Len(keywords) : Contains(text_lower, keywords[k])

\* the if / elif / elif over the three keyword lists on one text: <<name>> of
\* the first list with a keyword in the text, <<>> if none has one
KeywordChecks(text_lower) ==
    IF AnyKeyword(text_lower, remote_keywords) THEN <<RemoteName>>
    ELSE IF AnyKeyword(text_lower, hybrid_keywords) THEN <<HybridName>>
    ELSE IF AnyKeyword(text_lower, onsite_keywords) THEN <<OnsiteName>>
    ELSE <<>>

\* x.lower() if x else ""
LowerOrEmpty(x) == IF Truthy(x) THEN Lower(x) ELSE <<>>

\* job.jobNature after SearchService.standardize_job_nature(job)
ServiceStandardize(j) ==
    LET Chain(title, nature, desc) ==
            IF title # <<>> THEN title[1]
            ELSE IF nature # <<>> THEN nature[1]
            ELSE IF desc # <<>> THEN desc[1]
            ELSE NotSpecified
    IN  Chain(KeywordChecks(LowerOrEmpty(j.job_title)),
              KeywordChecks(LowerOrEmpty(j.jobNature)),
              KeywordChecks(LowerOrEmpty(j.description)))

\* job.jobNature after BaseScraper.standardize_job_nature(job)
ScraperStandardize(j) ==
    LET Field(nature) == IF nature # <<>> THEN nature[1] ELSE j.jobNature
        Desc(desc)    == IF desc # <<>> THEN desc[1] ELSE NotSpecified
        Chain(title)  ==
            IF title # <<>> THEN title[1]
            ELSE IF Truthy(j.jobNature) THEN Field(KeywordChecks(Lower(j.jobNature)))
            ELSE IF Truthy(j.description) THEN Desc(KeywordChecks(Lower(j.description)))
            ELSE NotSpecified
    IN  Chain(KeywordChecks(LowerOrEmpty(j.job_title)))

\* what the call self.standardize_job_nature(job) evaluates to: the method
\* has no return statement
StandardizeReturns == None

\* the jobs list of get_mock_jobs before its last loop, for a scraper class
\* IndeedScraper
MockJob(i, position, location, experience, job_nature) ==
    LET source == <<"I","n","d","e","e","d">>
        job_titles == <<position \o <<" ","E","n","g","i","n","e","e","r">>, <<"S","e","n","i","o","r"," ">> \o position, position \o <<" ","D","e","v","e","l","o","p","e","r">>>>
        companies  == <<source \o <<" ","S","o","l","u","t","i","o","n","s"," ","I","n","c",".">>, <<"G","l","o","b","a","l"," ">> \o source \o <<" ","T","e","c","h","n","o","l","o","g","i","e","s">>, <<"T","e","c","h"," ">> \o source \o <<" ","P","a","r","t","n","e","r","s">>>>
        cycle      == <<RemoteName, OnsiteName, HybridName>>
        Built(title, link) ==
            [NewJob(title, companies[i + 1],
                    IF Truthy(job_nature) THEN job_nature ELSE cycle[(i % 3) + 1],
                    <<"T","h","i","s"," ","i","s"," ","a"," ","m","o","c","k"," ">> \o title \o <<" ","p","o","s","i","t","i","o","n"," ","c","r","e","a","t","e","d"," ","a","s"," ","a"," ","f","a","l","l","b","a","c","k"," ","b","e","c","a","u","s","e"," ","r","e","a","l"," ","s","c","r","a","p","i","n","g"," ","f","a","i","l","e","d",".">>,
                    IF Truthy(location) THEN location ELSE <<"A","n","y"," ","L","o","c","a","t","i","o","n">>,
                    IF Truthy(experience) THEN experience ELSE NotSpecified,
                    <<"C","o","m","p","e","t","i","t","i","v","e">>, source)
             EXCEPT !.apply_link = link]
    IN  Built(job_titles[i + 1],
              <<"h","t","t","p","s",":","/","/","e","x","a","m","p","l","e",".","c","o","m","/">> \o Lower(source) \o <<"/","j","o","b","s","/">> \o FormatInt(i))

NormTitles ==
    {<<"S","o","f","t","w","a","r","e"," ","E","n","g","i","n","e","e","r">>,
     <<"R","e","m","o","t","e"," ","B","a","c","k","e","n","d"," ","E","n","g","i","n","e","e","r">>,
     <<"F","l","e","x","i","b","l","e"," ","H","o","u","r","s"," ","A","n","a","l","y","s","t">>,
     <<"I","n","-","P","e","r","s","o","n"," ","T","e","c","h","n","i","c","i","a","n">>}

NormNatures ==
    {None,
     <<>>,
     <<"O","n","s","i","t","e">>,
     <<"o","n","s","i","t","e">>,
     <<"W","o","r","k"," ","F","r","o","m"," ","H","o","m","e">>,
     <<"H","y","b","r","i","d">>,
     <<"F","u","l","l","-","t","i","m","e">>,
     <<"N","o","t"," ","s","p","e","c","i","f","i","e","d">>}

NormDescriptions ==
    {None,
     <<>>,
     <<"T","h","i","s"," ","i","s"," ","a"," ","r","e","m","o","t","e"," ","p","o","s","i","t","i","o","n">>,
     <<"W","o","r","k"," ","i","n"," ","o","f","f","i","c","e",","," ","f","l","e","x","i","b","l","e"," ","F","r","i","d","a","y","s">>,
     <<"O","n"," ","l","o","c","a","t","i","o","n"," ","a","t"," ","t","h","e"," ","p","l","a","n","t">>,
     <<"A"," ","g","r","e","a","t"," ","j","o","b">>}

NormPostings ==
    {NewJob(t, <<"X","Y","Z">>, n, d, None, None, None, <<"I","n","d","e","e","d">>) :
        t \in NormTitles, n \in NormNatures, d \in NormDescriptions}

MockRequests ==
    {JobRequest(p, n, None, None, None) :
        p \in {<<"P","y","t","h","o","n">>, <<"V","i","r","t","u","a","l"," ","A","s","s","i","s","t","a","n","t">>},
        n \in {None, <<"o","n","s","i","t","e">>}}

\* how often the normalizer is applied to a posting
MaxApplications == 2

\* phase: which implementation has run; offset: how often; result: the values
\* job.jobNature has had
NormInit ==
    /\ using_ai = FALSE
    /\ llm = "unset"
    /\ score_cache = EmptyCache
    /\ job \in {<<p>> : p \in NormPostings}
    /\ pc = "idle"
    /\ input = <<1>>
    /\ job_request = ReqAny
    /\ threshold = Rel(20)
    /\ nature_matching_jobs = <<>>
    /\ non_matching_jobs = <<>>
    /\ scored_matching_jobs = <<>>
    /\ phase = "none"
    /\ offset = 0
    /\ tasks = <<>>
    /\ inflight = <<>>
    /\ all_scored_jobs = <<>>
    /\ result = <<job[1].jobNature>>
    /\ outcome = "none"
    /\ invoked = <<>>
    /\ how = NotScored
    /\ fell_back = FALSE

Standardized(which, nature) ==
    /\ phase \in {"none", which}
    /\ offset < MaxApplications
    /\ job' = <<[job[1] EXCEPT !.jobNature = nature]>>
    /\ result' = Append(result, nature)
    /\ phase' = which
    /\ offset' = offset + 1
    /\ pc' = "done"
    /\ UNCHANGED <<service, score_cache, arguments, nature_matching_jobs, non_matching_jobs,
                   scored_matching_jobs, tasks, inflight, all_scored_jobs, outcome, invoked,
                   how, fell_back>>

\* self.standardize_job_nature(job) in SearchService._safe_search_with_scraper
StandardizeByService == Standardized("service", ServiceStandardize(job[1]))

\* BaseScraper.standardize_job_nature(job), called by a scraper on a job it built
StandardizeByScraper == Standardized("scraper", ScraperStandardize(job[1]))

\* get_mock_jobs: three jobs are built, and the last loop assigns to the
\* jobNature of each what standardize_job_nature returns
GetMockJobs ==
    \E request \in MockRequests :
        /\ pc = "idle"
        /\ job_request' = request
        /\ LET Built(i) == MockJob(i, request.position, request.location,
                                   request.experience, request.jobNature)
               LastLoop(jobs) ==
                   [k \in 1..Len(jobs) |->
                       [[jobs[k] EXCEPT !.jobNature = ScraperStandardize(jobs[k])]
                            EXCEPT !.jobNature = StandardizeReturns]]
           IN  job' = LastLoop(<<Built(0), Built(1), Built(2)>>)
        /\ input' = <<1, 2, 3>>
        /\ result' = [k \in 1..3 |-> job'[k].jobNature]
        /\ phase' = "mock"
        /\ pc' = "done"
        /\ UNCHANGED <<service, score_cache, threshold, nature_matching_jobs,
                       non_matching_jobs, scored_matching_jobs, offset, tasks, inflight,
                       all_scored_jobs, outcome, invoked, how, fell_back>>

NormNext ==
    \/ StandardizeByService
    \/ StandardizeByScraper
    \/ GetMockJobs

NormSpec == NormInit /\ [][NormNext]_vars

(***************************************************************************)
(* Gathering from the collectors: SearchService.search_jobs and the        *)
(* /search route                                                           *)
(***************************************************************************)
\* number of scrapers get_all_scrapers returns
NumCollectors == 3

\* len(filtered_jobs) >= 3 in SearchService.search_jobs
SoftFilterMin == 3

Collectors == 1..NumCollectors

\* the lists scraper c may return: none, one or two of its own postings
CollectorLists(c) == {<<>>, <<2 * c - 1>>, <<2 * c - 1, 2 * c>>}

\* the Job objects the scrapers build
GatherJobs == [i \in 1..(2 * NumCollectors) |-> JobAt(i)]

Pending == [done |-> FALSE, raised |-> FALSE, value |-> <<>>]

\* what gather(..., return_exceptions=True) holds for a finished task
Finished(raised, value) == [done |-> TRUE, raised |-> raised, value |-> value]

\* a variant of ProcessResults that stops at the first exception
ProcessResultsFailFast(results) ==
    LET all_jobs[k \in 0..Len(results)] ==
            IF k = 0 THEN <<>>
            ELSE IF \E m \in 1..k : results[m].raised THEN all_jobs[k - 1]
            ELSE all_jobs[k - 1] \o results[k].value
    IN  all_jobs[Len(results)]

\* for result in results: skip the exceptions, extend all_jobs by the lists
ProcessResults(results) ==
    LET all_jobs[k \in 0..Len(results)] ==
            IF k = 0 THEN <<>>
            ELSE IF results[k].raised THEN all_jobs[k - 1]
            ELSE all_jobs[k - 1] \o results[k].value
    IN  all_jobs[Len(results)]

\* SearchService._filter_by_job_nature
FilterByJobNature(seq, jobs, requested_nature) ==
    LET Matching(matching) ==
            IF matching # <<>> THEN matching ELSE seq
    IN  IF ~Truthy(requested_nature) THEN seq
        ELSE Matching(SelectSeq(seq, LAMBDA i : MatchesNature(jobs[i], requested_nature)))

\* tasks: the results of the tasks, by scraper; invoked: which scraper ended
\* how, in the order they ended; input: all_jobs; result: what search_jobs
\* returns; fell_back: the except block of search_jobs has run
GatherInit ==
    /\ using_ai = FALSE
    /\ llm = "unset"
    /\ score_cache = EmptyCache
    /\ job = GatherJobs
    /\ pc = "idle"
    /\ input = <<>>
    /\ job_request = ReqAny
    /\ threshold = Rel(20)
    /\ nature_matching_jobs = <<>>
    /\ non_matching_jobs = <<>>
    /\ scored_matching_jobs = <<>>
    /\ phase = "none"
    /\ offset = 0
    /\ tasks = <<>>
    /\ inflight = <<>>
    /\ all_scored_jobs = <<>>
    /\ result = <<>>
    /\ outcome = "none"
    /\ invoked = <<>>
    /\ how = NotScored
    /\ fell_back = FALSE

\* the tasks are created, one for each scraper
SearchStart ==
    \E which \in {"service", "route"}, request \in {ReqOnsite, ReqAny} :
        /\ pc = "idle"
        /\ phase' = which
        /\ job_request' = request
        /\ tasks' = [c \in Collectors |-> Pending]
        /\ pc' = "gather"
        /\ UNCHANGED <<service, score_cache, job, input, threshold, nature_matching_jobs,
                       non_matching_jobs, scored_matching_jobs, offset, inflight,
                       all_scored_jobs, result, outcome, invoked, how, fell_back>>

\* scraper.search_jobs of scraper c returns a list; under SearchService the
\* task is _safe_search_with_scraper, which standardizes the jobs of the list
CollectorReturns ==
    \E c \in Collectors :
        \E jobs \in CollectorLists(c) :
            /\ pc = "gather"
            /\ ~tasks[c].done
            /\ job' = IF phase = "service"
                      THEN [i \in DOMAIN job |->
                               IF \E k \in 1..Len(jobs) : jobs[k] = i
                               THEN [job[i] EXCEPT !.jobNature = ServiceStandardize(job[i])]
                               ELSE job[i]]
                      ELSE job
            /\ tasks' = [tasks EXCEPT ![c] = Finished(FALSE, jobs)]
            /\ invoked' = Append(invoked, <<c, "returned", jobs>>)
            /\ UNCHANGED <<service, score_cache, pc, arguments, nature_matching_jobs,
                           non_matching_jobs, scored_matching_jobs, phase, offset, inflight,
                           all_scored_jobs, result, outcome, how, fell_back>>

\* scraper.search_jobs of scraper c raises an Exception: under SearchService
\* _safe_search_with_scraper catches it and returns [], under the route the
\* task ends with the exception
CollectorRaises ==
    \E c \in Collectors :
        /\ pc = "gather"
        /\ ~tasks[c].done
        /\ tasks' = [tasks EXCEPT ![c] = Finished(phase = "route", <<>>)]
        /\ invoked' = Append(invoked, <<c, "raised", <<>>>>)
        /\ UNCHANGED <<service, score_cache, job, pc, arguments, nature_matching_jobs,
                       non_matching_jobs, scored_matching_jobs, phase, offset, inflight,
                       all_scored_jobs, result, outcome, how, fell_back>>

AllFinished == pc = "gather" /\ \A c \in Collectors : tasks[c].done

\* a variant of ServiceGathered that returns the postings of the requested
\* nature however few they are
ServiceGatheredStrict ==
    /\ AllFinished
    /\ phase = "service"
    /\ input' = ProcessResults(tasks)
    /\ Return(IF Truthy(job_request.jobNature)
              THEN FilterByJobNature(input', job, job_request.jobNature)
              ELSE input')
    /\ UNCHANGED <<service, score_cache, job, job_request, threshold, nature_matching_jobs,
                   non_matching_jobs, scored_matching_jobs, phase, offset, tasks, inflight,
                   all_scored_jobs, invoked, how, fell_back>>

\* SearchService.search_jobs after gather: the results are processed, the
\* nature filter is applied, all_jobs is returned
ServiceGathered ==
    /\ AllFinished
    /\ phase = "service"
    /\ input' = ProcessResults(tasks)
    /\ LET Soft(filtered_jobs) ==
               IF Len(filtered_jobs) >= SoftFilterMin THEN filtered_jobs ELSE input'
       IN  Return(IF Truthy(job_request.jobNature)
                  THEN Soft(FilterByJobNature(input', job, job_request.jobNature))
                  ELSE input')
    /\ UNCHANGED <<service, score_cache, job, job_request, threshold, nature_matching_jobs,
                   non_matching_jobs, scored_matching_jobs, phase, offset, tasks, inflight,
                   all_scored_jobs, invoked, how, fell_back>>

\* an Exception is raised inside the try block of SearchService.search_jobs,
\* outside the tasks: the except block logs it and returns []
SearchRaises ==
    /\ pc = "gather"
    /\ phase = "service"
    /\ fell_back' = TRUE
    /\ Return(<<>>)
    /\ UNCHANGED <<service, score_cache, job, arguments, nature_matching_jobs,
                   non_matching_jobs, scored_matching_jobs, phase, offset, tasks, inflight,
                   all_scored_jobs, invoked, how>>

\* the /search route after gather: the results are processed; the handler
\* goes on to relevance_service.filter_jobs_by_relevance(all_jobs, ...)
RouteGathered ==
    /\ AllFinished
    /\ phase = "route"
    /\ input' = ProcessResults(tasks)
    /\ pc' = "filter"
    /\ UNCHANGED <<service, score_cache, job, job_request, threshold, nature_matching_jobs,
                   non_matching_jobs, scored_matching_jobs, phase, offset, tasks, inflight,
                   all_scored_jobs, result, outcome, invoked, how, fell_back>>

GatherNext ==
    \/ SearchStart
    \/ CollectorReturns
    \/ CollectorRaises
    \/ ServiceGathered
    \/ SearchRaises
    \/ RouteGathered

GatherSpec == GatherInit /\ [][GatherNext]_vars

(***************************************************************************)
(* SimpleRelevanceFilteringService.filter_jobs_by_relevance, the filter of *)
(* the /search route.  The scores are what the vectorizer and              *)
(* cosine_similarity of the external library give for the documents: one   *)
(* float of [0, 1] for each posting.                                       *)
(***************************************************************************)
\* the literal 0.01 of "if score >= 0.01"
SimpleMinScore == Rel(1)

\* values cosine_similarity may give
Similarities == {Zero, FDiv(FromNat(1), 200), Rel(1), Rel(18), Rel(20), Rel(60)}

SimpleInputs == {Prefix(0), Prefix(3)}

\* input: jobs; threshold: the threshold argument; inflight: relevance_scores;
\* result: what the call returns
SimpleInit ==
    /\ using_ai = FALSE
    /\ llm = "unset"
    /\ score_cache = EmptyCache
    /\ job = FreshJobs
    /\ pc = "filter"
    /\ input \in SimpleInputs
    /\ job_request = ReqOnsite
    /\ threshold \in Thresholds
    /\ nature_matching_jobs = <<>>
    /\ non_matching_jobs = <<>>
    /\ scored_matching_jobs = <<>>
    /\ phase = "route"
    /\ offset = 0
    /\ tasks = <<>>
    /\ inflight = <<>>
    /\ all_scored_jobs = <<>>
    /\ result = <<>>
    /\ outcome = "none"
    /\ invoked = <<>>
    /\ how = NotScored
    /\ fell_back = FALSE

\* if not jobs: return []
SimpleFilterEmpty ==
    /\ pc = "filter"
    /\ input = <<>>
    /\ Return(<<>>)
    /\ UNCHANGED <<service, score_cache, job, arguments, nature_matching_jobs,
                   non_matching_jobs, scored_matching_jobs, phase, offset, tasks, inflight,
                   all_scored_jobs, invoked, how, fell_back>>

\* the places i of jobs with score >= 0.01
SimpleRelevant(seq, relevance_scores, min_score) ==
    SelectSeq([k \in 1..Len(seq) |-> k], LAMBDA k : FLeq(SimpleMinScore, relevance_scores[k]))

\* the scores are computed, the postings that pass are given their score,
\* sorted and returned
SimpleFilter ==
    \E relevance_scores \in [1..Len(input) -> Similarities] :
        /\ pc = "filter"
        /\ input # <<>>
        /\ inflight' = relevance_scores
        /\ LET Loop(places) ==
                   /\ job' = [i \in DOMAIN job |->
                                 IF \E k \in 1..Len(places) : input[places[k]] = i
                                 THEN [job[i] EXCEPT !.relevance_score =
                                          <<relevance_scores[CHOOSE k \in 1..Len(input) :
                                                                 input[k] = i]>>]
                                 ELSE job[i]]
                   /\ all_scored_jobs' = [k \in 1..Len(places) |-> input[places[k]]]
           IN  Loop(SimpleRelevant(input, relevance_scores, threshold))
        /\ Return(SortByScore(all_scored_jobs', job'))
        /\ UNCHANGED <<service, score_cache, arguments, nature_matching_jobs,
                       non_matching_jobs, scored_matching_jobs, phase, offset, tasks,
                       invoked, how, fell_back>>

SimpleNext ==
    \/ SimpleFilterEmpty
    \/ SimpleFilter

SimpleSpec == SimpleInit /\ [][SimpleNext]_vars

(***************************************************************************)
(* Properties                                                              *)
(***************************************************************************)
\* the postings of filter's jobs argument
InputIds == {input[k] : k \in 1..Len(input)}

ResultIds == {result[k] : k \in 1..Len(result)}

NonMatchingIds == {non_matching_jobs[k] : k \in 1..Len(non_matching_jobs)}

InvokedIds == {invoked[k] : k \in 1..Len(invoked)}

\* relevance_score of the posting of index i, once assigned
ScoreOf(i) == job[i].relevance_score[1]

IsScored(i) == job[i].relevance_score # <<>>

\* the posting of index i has the requested nature
Matches(i) ==
    ~Truthy(job_request.jobNature) \/ MatchesNature(job[i], job_request.jobNature)

Running == pc \notin {"idle", "done"}

\* the groups the loop of the batch scorer has not left yet
GroupsLeft == (Max(Len(BatchJobs) - offset, 0) + BatchSize - 1) \div BatchSize

GroupWeight == 2 * BatchSize + 3

\* a bound on the steps a running call still takes
StepsLeft ==
    IF ~Running THEN 0
    ELSE (IF phase = "matching" THEN (MaxJobs + 1) * GroupWeight ELSE 0)
         + GroupsLeft * GroupWeight
         + (CASE pc = "group"    -> 2 * BatchSize + 2
              [] pc = "tasks"    -> 2 * Len(tasks) + 1
              [] pc = "awaiting" -> 2 * Len(tasks) + 2)

\* C1: every assigned relevance_score is in [0, 1], whichever path assigned it
\* and whatever number the model wrote in its SCORE line.
C1_ScoreInUnitInterval ==
    \A i \in JobIds :
        IsScored(i) => FLeq(Zero, ScoreOf(i)) /\ FLeq(ScoreOf(i), Rel(100))

\* a running call has a step to take: the guards of BatchGroup, of the three
\* ways out of the batch scorer, of TaskScored and TaskFailed (one of which
\* holds of any awaited score), and AwaitTask and NextGroup
CanStep ==
    \/ pc = "group" /\ offset < Len(BatchJobs)
    \/ BatchDone /\ phase \in {"matching", "non_matching"}
    \/ pc = "awaiting" /\ inflight # <<>>
    \/ ENABLED AwaitTask
    \/ ENABLED NextGroup

\* C2: a call never hands an error to its caller, what it returns is a list of
\* postings of its input (the empty list for the empty input), and a call that
\* has begun comes to its return: it always has a step to take, and each of
\* its steps, the fallback on an Exception included, lowers StepsLeft.
C2_Total ==
    /\ [](/\ outcome # "raised"
          /\ pc = "done" => outcome = "returned" /\ ResultIds \subseteq InputIds
          /\ pc = "done" /\ input = <<>> => result = <<>>
          /\ Running => CanStep)
    /\ [][Running => StepsLeft' < StepsLeft]_vars

\* a call that returned a list after an Exception had left the batch scorer
\* with model invocations behind it
C2_Witness ==
    /\ pc = "done"
    /\ outcome = "returned"
    /\ fell_back
    /\ invoked # <<>>
    /\ result # <<>>

\* C3: every returned posting has relevance_score and relevance_percentage set
\* and relevance_score >= threshold.
C3_ReturnedAreScored ==
    pc = "done" =>
        \A i \in ResultIds :
            /\ IsScored(i)
            /\ job[i].relevance_percentage # None
            /\ FLeq(threshold, ScoreOf(i))

\* a combined return that holds a posting scored from the cache and one scored
\* by the except block of the batch scorer
C3_Witness ==
    /\ pc = "done"
    /\ ~fell_back
    /\ phase = "non_matching"
    /\ \E i \in ResultIds : how[i] = "cache"
    /\ \E i \in ResultIds : how[i] = "rules_on_item"
    /\ \E i \in ResultIds : i \in NonMatchingIds

\* C4 as stated: of two consecutive returned postings the earlier has the
\* relevance_score that is greater or equal.
C4_Descending ==
    pc = "done" =>
        \A k \in 1..(Len(result) - 1) : FLeq(ScoreOf(result[k + 1]), ScoreOf(result[k]))

\* C4: of two consecutive returned postings the earlier has the relevance_score
\* that is greater or equal, unless a nature is requested, the earlier posting
\* has it and the later one does not.
C4_DescendingWithinNature ==
    pc = "done" =>
        \A k \in 1..(Len(result) - 1) :
            \/ FLeq(ScoreOf(result[k + 1]), ScoreOf(result[k]))
            \/ /\ Truthy(job_request.jobNature)
               /\ Matches(result[k])
               /\ ~Matches(result[k + 1])

\* a returned list in which a posting of another nature follows a matching
\* posting of lower relevance_score
C4_Witness ==
    /\ pc = "done"
    /\ \E k \in 1..(Len(result) - 1) :
           /\ Matches(result[k])
           /\ ~Matches(result[k + 1])
           /\ FLess(ScoreOf(result[k]), ScoreOf(result[k + 1]))

\* C5: with a requested nature, the matching postings of the returned list all
\* precede the others, the scores do not increase within either group, and of
\* 10 postings with exactly 6 matching, all scored ones kept, the first 6
\* returned match.
C5_MatchingFirst ==
    pc = "done" /\ Truthy(job_request.jobNature) =>
        /\ \A k, m \in 1..Len(result) :
               Matches(result[k]) /\ ~Matches(result[m]) => k < m
        /\ \A k \in 1..(Len(result) - 1) :
               Matches(result[k]) = Matches(result[k + 1])
                   => FLeq(ScoreOf(result[k + 1]), ScoreOf(result[k]))
        /\ ( /\ Len(input) = 10
             /\ Cardinality({i \in InputIds : Matches(i)}) = 6
             /\ \A i \in InputIds : IsScored(i) => i \in ResultIds )
               => /\ Len(result) >= 6
                  /\ \A k \in 1..6 : Matches(result[k])

\* all 10 postings returned, 6 of them matching, and one of the other 4 with a
\* relevance_score above that of a matching one
C5_Witness ==
    /\ pc = "done"
    /\ Truthy(job_request.jobNature)
    /\ Len(input) = 10
    /\ Len(result) = 10
    /\ Cardinality({i \in InputIds : Matches(i)}) = 6
    /\ \E i, k \in ResultIds : Matches(i) /\ ~Matches(k) /\ FLess(ScoreOf(i), ScoreOf(k))

\* C6: in the path of the model, when 5 or more matching postings are kept the
\* call returns just these; a posting of another nature is not sent to the
\* model, not scored and not returned, and no step of the call while it scores
\* the matching postings puts a key into the cache that is not one of theirs.
C6_ShortCircuit ==
    /\ [](pc = "done" /\ using_ai /\ ~fell_back /\ Len(scored_matching_jobs) >= EnoughMatching
            => /\ phase = "matching"
               /\ result = scored_matching_jobs
               /\ ResultIds = {i \in InputIds : Matches(i) /\ FLeq(threshold, ScoreOf(i))}
               /\ \A i \in NonMatchingIds :
                      /\ i \notin InvokedIds
                      /\ ~IsScored(i)
                      /\ job[i].relevance_percentage = None
                      /\ how[i] = "none"
                      /\ i \notin ResultIds)
    /\ [][pc \notin {"idle", "done"} /\ phase = "matching" /\ phase' = "matching"
            => \A key \in DOMAIN score_cache' \ DOMAIN score_cache :
                   /\ \E i \in InputIds \ NonMatchingIds : CacheKeys(job_request)[i] = key
                   /\ \A i \in NonMatchingIds : CacheKeys(job_request)[i] # key]_vars

\* a return of 5 or more matching postings from an input that has others
C6_Witness ==
    /\ pc = "done"
    /\ using_ai
    /\ ~fell_back
    /\ Len(scored_matching_jobs) >= EnoughMatching
    /\ non_matching_jobs # <<>>
    /\ invoked # <<>>
    /\ score_cache # EmptyCache

\* C7: without the model, when 5 or more matching postings have a rule score at
\* or above the threshold, no posting of another nature is returned or scored.
C7_RulePathShortCircuit ==
    /\ pc = "done"
    /\ ~using_ai
    /\ Truthy(job_request.jobNature)
    /\ Cardinality({i \in InputIds : Matches(i) /\ IsScored(i)
                                        /\ FLeq(threshold, ScoreOf(i))}) >= EnoughMatching
    => \A i \in InputIds : ~Matches(i) => i \notin ResultIds /\ ~IsScored(i)

\* C8: the three postings (onsite with the title, remote with the title, onsite
\* with a word of the title) under "Full Stack Engineer", "onsite",
\* "Node.js, React.js" and threshold 0.2 give the two onsite postings, the one
\* with the title first.
C8_Scenario ==
    /\ pc = "done"
    /\ input = Prefix(3)
    /\ job_request = ReqOnsite
    /\ threshold = Rel(20)
    => result = <<1, 3>>

\* C9: when an Exception has left the batch scorer, every posting of the input
\* carries its rule score and percentage, and the call returns what the rule
\* scorer returns for the whole input: the postings at or above the threshold,
\* by descending score, the matching ones first.
C9_WholeInputByRules ==
    pc = "done" /\ fell_back =>
        /\ \A i \in InputIds :
               /\ job[i].relevance_score = <<RuleScored(i, job_request).score>>
               /\ job[i].relevance_percentage = RuleScored(i, job_request).percentage
        /\ ResultIds = {i \in InputIds : FLeq(threshold, RuleScored(i, job_request).score)}
        /\ result = ScoreJobsWithRules(input, job, job_request, threshold)

\* a fallback while the other postings were being scored, which returns one of
\* them and leaves a posting with a score that is not the one the model gave it
C9_Witness ==
    /\ pc = "done"
    /\ fell_back
    /\ phase = "non_matching"
    /\ \E i \in ResultIds : i \in NonMatchingIds
    /\ \E i \in InvokedIds :
           /\ CacheKeys(job_request)[i] \in DOMAIN score_cache
           /\ ToRelevance(score_cache[CacheKeys(job_request)[i]]) # ScoreOf(i)

Mismatch(i) ==
    /\ Truthy(job_request.jobNature)
    /\ Truthy(job[i].jobNature)
    /\ Lower(job_request.jobNature) # Lower(job[i].jobNature)

\* the ways the batch scorer of the model assigns a score
LLMWays == {"llm", "cache", "rules_on_error", "rules_on_parse", "rules_on_item"}

\* the number the patterns of _score_single_job read in a reply, <<>> if none
ParsedScore(content) ==
    LET First(digits) == IF digits = <<>> THEN <<>> ELSE <<ParseFloat(digits[1])>>
    IN  IF PrimaryMatch(content) # <<>> THEN First(PrimaryMatch(content))
        ELSE First(NumericMatch(content))

\* C11: a posting whose nature differs from the requested one, both being set,
\* is never given a relevance_score above 0.3 by the scorer of the model, by
\* whichever way; the score returned for such a posting from a parsed number
\* s > 30 is min(30, 0.3 * s), which for 85 is at most 25.5.
C11_MismatchGuard ==
    /\ \A i \in JobIds :
           IsScored(i) /\ how[i] \in LLMWays /\ Mismatch(i) => FLeq(ScoreOf(i), Rel(30))
    /\ pc = "awaiting" /\ Mismatch(inflight[1][1]) =>
           LET Guarded(parsed) ==
                   /\ FLeq(Awaited.score, Points(30))
                   /\ parsed # <<>> /\ FLess(Points(30), parsed[1])
                          => Awaited.score = FMin(Points(30), FMul(parsed[1], Rel(30)))
                   /\ parsed = <<FromNat(85)>> => FLeq(Awaited.score, FDiv(FromNat(51), 2))
           IN  Guarded(IF Ainvoke(llm, inflight[1][1]).raises THEN <<>>
                       ELSE ParsedScore(Ainvoke(llm, inflight[1][1]).content))

\* a returned posting of another nature for which the model wrote 85 and which
\* has the relevance_score 0.255
C11_Witness ==
    /\ pc = "done"
    /\ \E i \in ResultIds :
           /\ Mismatch(i)
           /\ how[i] = "llm"
           /\ ParsedScore(Ainvoke(llm, i).content) = <<FromNat(85)>>
           /\ ScoreOf(i) = ToRelevance(FDiv(FromNat(51), 2))


\* the formula of the rule score, on double precision numbers: the base, the
\* terms in their order, the cap on a mismatch, and the clamp to [0, 1]
ReferenceScore(j, request) ==
    LET both     == Truthy(request.jobNature) /\ Truthy(j.jobNature)
        same     == Lower(request.jobNature) = Lower(j.jobNature)
        title    == Lower(j.job_title)
        position == Lower(request.position)
        Arrangement ==
            IF both /\ same THEN Rel(40)
            ELSE IF both THEN Negate(Rel(20)) ELSE Zero
        Title ==
            IF Contains(title, position) THEN Rel(30)
            ELSE IF \E w \in 1..Len(SplitWs(position)) : Contains(title, SplitWs(position)[w])
            THEN Rel(15) ELSE Zero
        Cap(total) == IF both /\ ~same THEN FMin(total, Rel(30)) ELSE total
    IN  FMin(Rel(100), FMax(Zero,
            Cap(FAdd(FAdd(FAdd(FAdd(FAdd(Rel(30), Arrangement), Title),
                               SkillsTerm(j, request)),
                          LocationTerm(j, request)),
                     ExperienceTerm(j, request)))))

\* C12: the rule score of a posting is in [0, 1], and is at most 0.3 when the
\* request and the posting both name a nature and the natures differ.
C12_RuleScoreBounds ==
    pc = "done" =>
        /\ IsScored(1)
        /\ FLeq(Zero, ScoreOf(1))
        /\ FLeq(ScoreOf(1), Rel(100))
        /\ Mismatch(1) => FLeq(ScoreOf(1), Rel(30))

\* a posting of another nature with the position in its title, both skills in
\* its description, the location and the experience, scored 0.3
C12_Witness ==
    /\ pc = "done"
    /\ Mismatch(1)
    /\ TitleTerm(job[1], job_request) = Rel(30)
    /\ SkillsTerm(job[1], job_request) = Rel(20)
    /\ LocationTerm(job[1], job_request) = Rel(10)
    /\ ExperienceTerm(job[1], job_request) = Rel(10)
    /\ ScoreOf(1) = Rel(30)

KeyOf(i) == CacheKeys(job_request)[i]

\* C14: a posting whose key is in the cache when the batch scorer comes to its
\* group gets no task and no invocation, is assigned the cached score divided
\* by 100 and is kept iff that is at or above the threshold of the call; so
\* for every call that returns from the batch scorer, with the cache of the
\* calls before it as long as close has not emptied it.
C14_CacheHit ==
    /\ [][pc = "group" /\ pc' = "tasks" =>
            \A k \in 1..Len(Group) :
                KeyOf(Group[k]) \in DOMAIN score_cache =>
                    /\ \A t \in 1..Len(tasks') : tasks'[t][1] # Group[k]
                    /\ invoked' = invoked
                    /\ job'[Group[k]].relevance_score =
                           <<ToRelevance(score_cache[KeyOf(Group[k])])>>
                    /\ (\E m \in (Len(all_scored_jobs) + 1)..Len(all_scored_jobs') :
                            all_scored_jobs'[m] = Group[k])
                       <=> FLeq(threshold, ToRelevance(score_cache[KeyOf(Group[k])]))]_vars
    /\ [](pc = "done" /\ ~fell_back =>
            \A i \in InputIds :
                how[i] = "cache" =>
                    /\ i \notin InvokedIds
                    /\ KeyOf(i) \in DOMAIN score_cache
                           => ScoreOf(i) = ToRelevance(score_cache[KeyOf(i)])
                    /\ i \in ResultIds <=> FLeq(threshold, ScoreOf(i)))

\* a later call served from the cache alone: one cached posting is returned,
\* another is below the threshold of this call and is not
C14_Witness ==
    /\ pc = "done"
    /\ ~fell_back
    /\ using_ai
    /\ input # <<>>
    /\ invoked = <<>>
    /\ score_cache # EmptyCache
    /\ \E i \in ResultIds : how[i] = "cache"
    /\ \E i \in InputIds \ ResultIds : how[i] = "cache"


\* C15: the coroutines of the batch scorer that are created and not finished
\* are never more than 3, of which the invocations under way are a part; and
\* an invocation starts for a posting of the group the loop is at, when every
\* posting of the groups before it has its score (from the model, from the
\* cache or by rules).
C15_BoundedAndGrouped ==
    /\ [](/\ Len(inflight) <= BatchSize
          /\ Len(tasks) + Len(inflight) <= BatchSize)
    /\ [][Len(invoked') > Len(invoked) =>
            /\ \E k \in 1..Len(Group) : Group[k] = invoked'[Len(invoked')]
            /\ \A m \in 1..offset : how[BatchJobs[m]] # "none"
            /\ phase = "non_matching"
                   => \A m \in 1..Len(nature_matching_jobs) :
                          how[nature_matching_jobs[m]] # "none"]_vars

\* an invocation under way in a later group whose three postings all need one
C15_Witness ==
    /\ pc = "awaiting"
    /\ offset >= BatchSize
    /\ Len(tasks) = BatchSize - 1
    /\ Len(inflight) = 1

\* C16: when the response for a posting is about to be consumed, the request
\* of every other uncached posting of its group has been issued.
C16_GroupInFlight ==
    pc = "awaiting" => tasks = <<>>


\* the four values the normalizer may give
CanonicalNatures == {RemoteName, OnsiteName, HybridName, NotSpecified}

\* the normalizer has run on the postings of job
Normalized == (phase \in {"service", "scraper"} /\ offset >= 1) \/ phase = "mock"

\* C17: after standardize_job_nature of either class has run on a posting, and
\* for the postings get_mock_jobs returns, jobNature is one of Remote, Onsite,
\* Hybrid, Not specified.
C17_CanonicalNature ==
    Normalized => \A k \in 1..Len(job) : job[k].jobNature \in CanonicalNatures

\* what strict priority with the first match winning gives for a title, a
\* field and a description: <<name>>, or <<>> where none of the three has a keyword
FirstMatch(title, field, description) ==
    LET Of(text) == KeywordChecks(LowerOrEmpty(text))
    IN  IF Of(title) # <<>> THEN Of(title)
        ELSE IF Of(field) # <<>> THEN Of(field)
        ELSE Of(description)

\* C18: the normalizer of either class gives the name of the first of title,
\* field and description that has a keyword: a keyword of the title decides
\* whatever the field and the description hold, and the description decides
\* only when neither the title nor the field has a keyword.
C18_FirstMatchWins ==
    phase \in {"service", "scraper"} /\ offset >= 1 =>
        LET Wins(first) == first # <<>> => result[2] = first[1]
        IN  Wins(FirstMatch(job[1].job_title, result[1], job[1].description))

\* C19: a second application of standardize_job_nature of the same class
\* leaves jobNature as the first application left it.
C19_Idempotent ==
    phase \in {"service", "scraper"} =>
        \A k \in 2..(Len(result) - 1) : result[k + 1] = result[k]

\* a posting whose field the first application of the scraper's normalizer set
\* from the description, applied twice
C19_Witness ==
    /\ phase = "scraper"
    /\ offset = 2
    /\ result[1] # result[2]
    /\ KeywordChecks(LowerOrEmpty(job[1].job_title)) = <<>>
    /\ result[3] = result[2]


\* how scraper c ended: its entry in the history
Ended(c) == invoked[CHOOSE k \in 1..Len(invoked) : invoked[k][1] = c]

\* the lists of the scrapers that returned, one after the other in the order
\* of the scrapers
ListsOfReturned ==
    LET upto[c \in 0..NumCollectors] ==
            IF c = 0 THEN <<>>
            ELSE IF Ended(c)[2] = "returned" THEN upto[c - 1] \o Ended(c)[3]
            ELSE upto[c - 1]
    IN  upto[NumCollectors]

\* C20: whichever scrapers raise, under SearchService.search_jobs and under
\* the /search route, the gathering ends without an error and all_jobs is the
\* lists of the scrapers that returned, in the order of the scrapers.
C20_CollectAll ==
    /\ outcome # "raised"
    /\ AllFinished => Len(invoked) = NumCollectors /\ ENABLED (ServiceGathered \/ RouteGathered)
    /\ (pc \in {"done", "filter"} /\ ~fell_back) => input = ListsOfReturned

\* under the route: the second scraper raised, the third returned before the
\* first, and all_jobs is the list of the first followed by that of the third
C20_Witness ==
    /\ pc = "filter"
    /\ phase = "route"
    /\ Ended(2)[2] = "raised"
    /\ invoked[1] = <<3, "returned", <<5, 6>>>>
    /\ Ended(1)[3] = <<1, 2>>
    /\ input = <<1, 2, 5, 6>>


\* the score the vectorizer gave to the posting at place k of the jobs argument
SimilarityOf(k) == inflight[k]

\* C21: every posting the filter of the /search route returns has a score of
\* at least the threshold argument, and every posting of the input whose score
\* is at least the threshold is returned
C21_ThresholdHonoured ==
    (pc = "done" /\ input # <<>>) =>
        /\ \A i \in ResultIds : FLeq(threshold, ScoreOf(i))
        /\ \A k \in 1..Len(input) :
               FLeq(threshold, SimilarityOf(k)) => input[k] \in ResultIds


\* a posting without what the scorers assign
Unscored(j) == [j EXCEPT !.relevance_score = <<>>, !.relevance_percentage = None]

\* C22: at every point of every sequence of filter calls, each posting's
\* source, job_title, company, location, experience, jobNature, salary,
\* apply_link and description are those the collector built it with
C22_OnlyRelevanceFieldsChange ==
    \A i \in JobIds : Unscored(job[i]) = JobAt(i)

\* a call has ended in which one posting was scored from the cache, one from
\* the model's reply and one by the except block of the batch scorer
C22_Witness ==
    /\ pc = "done"
    /\ \E i \in ResultIds : how[i] = "cache" /\ job[i] # JobAt(i)
    /\ \E i \in InputIds : how[i] = "llm" /\ job[i] # JobAt(i)
    /\ \E i \in InputIds : how[i] = "rules_on_item" /\ job[i] # JobAt(i)


\* the ways a score is made by _calculate_rule_based_score
RuleWays == {"rules", "rules_on_error", "rules_on_parse", "rules_on_item"}

\* C23: the returned postings of a call do not hold both a posting scored from
\* the model's reply and a posting scored by the rule-based scorer
C23_OneStrategy ==
    pc = "done" =>
        ~\E i \in ResultIds, k \in ResultIds : how[i] = "llm" /\ how[k] \in RuleWays


\* C24: within a call the model is invoked for postings of the input only and
\* for none of them twice, and not at all by a service without model; the
\* step that handles a failed invocation and the step that falls back to the
\* rules for the whole input invoke nothing
C24_NoRetry ==
    /\ [](/\ \A k \in 1..Len(invoked), m \in 1..Len(invoked) :
                 k # m => invoked[k] # invoked[m]
          /\ InvokedIds \subseteq InputIds
          /\ ~using_ai => invoked = <<>>)
    /\ [][(pc = "awaiting" \/ (fell_back' /\ ~fell_back)) => invoked' = invoked]_vars

\* a call in which every posting of the input was sent to the model and one
\* invocation raised, one gave no score and one gave a score int() rejects
C24_Witness ==
    /\ pc = "done"
    /\ ~fell_back
    /\ Len(invoked) = Len(input)
    /\ \E i \in InvokedIds : how[i] = "rules_on_error"
    /\ \E i \in InvokedIds : how[i] = "rules_on_parse"
    /\ \E i \in InvokedIds : how[i] = "rules_on_item"


\* the experience bonus as stated: 0.1 when a year count is found in both
\* texts and the posting's is at most the request's, a count of 0 included
StatedExperienceBonus(j, request) ==
    LET Bonus(user_years, job_years) ==
            IF user_years # <<>> /\ job_years # <<>> /\ job_years[1] <= user_years[1]
            THEN Rel(10) ELSE Zero
    IN  IF Truthy(request.experience) /\ Truthy(j.experience)
        THEN Bonus(ExtractYearsFromExperience(request.experience),
                   ExtractYearsFromExperience(j.experience))
        ELSE Zero

\* C25: the rule score of a posting is made with the stated experience bonus
C25_ExperienceBonus ==
    pc = "done" =>
        ScoreOf(1) =
            FMin(Rel(100), FMax(Zero, NatureCap(job[1], job_request,
                FAdd(FAdd(FAdd(FAdd(NatureTerm(job[1], job_request, Rel(30)),
                                    TitleTerm(job[1], job_request)),
                               SkillsTerm(job[1], job_request)),
                          LocationTerm(job[1], job_request)),
                     StatedExperienceBonus(job[1], job_request)))))


MatchingIds == {nature_matching_jobs[k] : k \in 1..Len(nature_matching_jobs)}

\* no posting is twice in seq
NoRepeat(seq) == \A k \in 1..Len(seq), m \in 1..Len(seq) : k # m => seq[k] # seq[m]

\* C26: what a call returns holds postings of its input only and none of them
\* twice; the two partitions of the input have no posting in common, hold no
\* posting twice and together hold every posting of the input
C26_SubList ==
    /\ pc = "done" => (ResultIds \subseteq InputIds /\ NoRepeat(result))
    /\ MatchingIds \cap NonMatchingIds = {}
    /\ MatchingIds \cup NonMatchingIds = InputIds
    /\ NoRepeat(nature_matching_jobs \o non_matching_jobs)

\* the whole input was scored by rules after the batch scorer had invoked the
\* model for postings of both partitions, and postings of both are returned
C26_Witness ==
    /\ pc = "done"
    /\ fell_back
    /\ InvokedIds \cap MatchingIds # {}
    /\ InvokedIds \cap NonMatchingIds # {}
    /\ ResultIds \cap MatchingIds # {}
    /\ ResultIds \cap NonMatchingIds # {}


\* the ways _score_single_job substitutes the rule score for the model's
SubstituteWays == {"rules_on_error", "rules_on_parse"}

\* the step that consumes a substituted rule score stores it, times 100, under
\* the posting's key
SubstituteStored ==
    [][(pc = "awaiting" /\ Awaited.via \in SubstituteWays) =>
          /\ inflight[1][2] \in DOMAIN score_cache'
          /\ score_cache'[inflight[1][2]] =
                 ToScore(RuleScored(inflight[1][1], job_request).score)
          /\ how'[inflight[1][1]] = Awaited.via]_vars

\* an entry of the cache is removed by close only, and is changed only by the
\* step that stores the score of a task under the same key
EntryKept ==
    [][\A k \in DOMAIN score_cache :
          \/ score_cache' = EmptyCache /\ pc \in {"idle", "done"}
          \/ /\ k \in DOMAIN score_cache'
             /\ \/ score_cache'[k] = score_cache[k]
                \/ pc = "awaiting" /\ inflight[1][2] = k /\ score_cache'[k] = Awaited.score]_vars

\* the entry a substituted rule score was stored in is not changed
SubstituteKept ==
    [][\A k \in DOMAIN score_cache :
          (\E s \in InputIds : KeyOf(s) = k /\ how[s] \in SubstituteWays) =>
              \/ score_cache' = EmptyCache
              \/ k \in DOMAIN score_cache' /\ score_cache'[k] = score_cache[k]]_vars

\* a posting whose key is in the cache when the loop comes to its group is
\* given the cached score and no task, and the model is invoked for the
\* posting of a task only
CachedNotInvoked ==
    /\ [][pc = "group" /\ pc' = "tasks" =>
            /\ \A t \in 1..Len(tasks') : tasks'[t][2] \notin DOMAIN score_cache
            /\ \A k \in 1..Len(Group) :
                   KeyOf(Group[k]) \in DOMAIN score_cache =>
                       /\ how'[Group[k]] = "cache"
                       /\ ScoreOf(Group[k])' = ToRelevance(score_cache[KeyOf(Group[k])])]_vars
    /\ [][invoked' # invoked /\ invoked' # <<>> =>
            pc = "tasks" /\ tasks # <<>> /\ invoked' = Append(invoked, Head(tasks)[1])]_vars

\* C27 as stated: a substituted rule score is stored under the posting's key
\* and is what the key gives until close, with no invocation for a cached key
C27_SubstituteServed ==
    SubstituteStored /\ EntryKept /\ SubstituteKept /\ CachedNotInvoked

\* C27: a substituted rule score is stored under the posting's key; the entry
\* of a key stays until close as it is, unless the score of a task of the same
\* key, which was a task of the same group, is stored over it; a cached key
\* is served from the cache with no invocation
C27_LastStoredServed ==
    SubstituteStored /\ EntryKept /\ CachedNotInvoked

\* a later call in which the posting whose reply gave no score is served the
\* rule score an earlier call stored for it, without invocation
C27_Witness ==
    /\ pc = "done"
    /\ llm = "Flaky"
    /\ how[3] = "cache"
    /\ 3 \notin InvokedIds
    /\ SingleScore(llm, 3, job_request).via = "rules_on_parse"
    /\ KeyOf(3) \in DOMAIN score_cache
    /\ score_cache[KeyOf(3)] = ToScore(RuleScored(3, job_request).score)
    /\ ScoreOf(3) = ToRelevance(score_cache[KeyOf(3)])


\* request differs from the request of the call in its skills at most
SameButSkills(request) ==
    /\ request.position = job_request.position
    /\ request.location = job_request.location
    /\ request.jobNature = job_request.jobNature
    /\ request.experience = job_request.experience

\* the posting of index s differs from that of index i in its description,
\* location, experience, salary, source and link at most
SameButDetails(s, i) ==
    /\ JobAt(s).job_title = JobAt(i).job_title
    /\ JobAt(s).company = JobAt(i).company
    /\ JobAt(s).jobNature = JobAt(i).jobNature

\* what the single scorer gives for the posting of index i under the request
\* of the call, as a relevance
OwnScore(i) == ToRelevance(SingleScore(llm, i, job_request).score)

\* C28: requests that differ in their skills only, and postings that differ in
\* description, location or experience only, have one cache key; an entry of
\* the cache is the score the single scorer gave to some posting under some
\* request of that key, and a posting scored from the cache has the entry's
\* score, whatever the single scorer gives for it under the request of the call
C28_ScoreDependsOnHistory ==
    /\ \A i \in InputIds, s \in JobIds, request \in Requests :
           (SameButSkills(request) /\ SameButDetails(s, i))
               => CacheKeys(request)[s] = KeyOf(i)
    /\ \A k \in DOMAIN score_cache :
           \E s \in JobIds, request \in Requests :
               /\ CacheKeys(request)[s] = k
               /\ SingleScore(llm, s, request).score = score_cache[k]
    /\ (pc = "done" /\ ~fell_back) =>
           \A i \in InputIds :
               (how[i] = "cache" /\ KeyOf(i) \in DOMAIN score_cache)
                   => ScoreOf(i) = ToRelevance(score_cache[KeyOf(i)])

\* a call under the request with other skills, after calls that filled the
\* cache: posting 1 has the score the model gave to posting 7, which has
\* another description, and is not returned, where the same call on an empty
\* cache scores it itself and returns it; posting 3 has the rule score made
\* with the skills of the earlier request
C28_Witness ==
    /\ pc = "done"
    /\ ~fell_back
    /\ input = Prefix(3)
    /\ how[1] = "cache"
    /\ ScoreOf(1) = OwnScore(7)
    /\ ScoreOf(1) # OwnScore(1)
    /\ 1 \notin ResultIds
    /\ FLeq(threshold, OwnScore(1))
    /\ how[3] = "cache"
    /\ ScoreOf(3) # OwnScore(3)


\* a nature is requested and the posting of index i has none
NatureAbsent(i) == Truthy(job_request.jobNature) /\ ~Truthy(job[i].jobNature)

\* the rule score of a posting without the term and the cap of the nature
RuleScoreWithoutNature(j, request) ==
    FMin(Rel(100), FMax(Zero,
        FAdd(FAdd(FAdd(FAdd(Rel(30), TitleTerm(j, request)), SkillsTerm(j, request)),
                  LocationTerm(j, request)),
             ExperienceTerm(j, request))))

GatheredOfNature ==
    SelectSeq(input, LAMBDA i : /\ Truthy(job[i].jobNature)
                                /\ Lower(job[i].jobNature) = Lower(job_request.jobNature))

\* C30: what SearchService.search_jobs returns is the gathered postings of the
\* requested nature when a nature is requested and at least 3 gathered
\* postings have it, and all gathered postings otherwise; the gathered
\* postings have a normalized nature; and when an Exception is raised inside
\* search_jobs the call returns the empty list
C30_SoftFilter ==
    (pc = "done" /\ phase = "service") =>
        /\ outcome = "returned"
        /\ fell_back => result = <<>>
        /\ ~fell_back =>
               /\ \A i \in InputIds : job[i].jobNature \in CanonicalNatures
               /\ result = IF /\ Truthy(job_request.jobNature)
                              /\ Len(GatheredOfNature) >= SoftFilterMin
                           THEN GatheredOfNature
                           ELSE input

\* a nature is requested; two of the three gathered postings have it, and all
\* three are returned
C30_Witness ==
    /\ pc = "done"
    /\ phase = "service"
    /\ ~fell_back
    /\ Truthy(job_request.jobNature)
    /\ Len(input) = 3
    /\ Len(GatheredOfNature) = 2
    /\ result = input

====
